---- MODULE Spec2Model ----
(***************************************************************************)
(* Model of the QE validation campaign of scripts/validate_build.py:       *)
(* the step executors (run_command, run_mpi_qe, run_wrapper), the outcome  *)
(* recorder (add_case), the campaign's sequence of steps and the           *)
(* HP / NEB / EPW mini-workflows of run_advanced_workflows.                *)
(*                                                                         *)
(* An external program is a black box: one execution is an ExtRun record   *)
(* (how it ended, its exit status, the text fragments it wrote, the files  *)
(* it left, its wall time).  A log file is the set of text fragments that  *)
(* occur in it, so that `marker in text` is set membership.                *)
(***************************************************************************)
EXTENDS Integers, Sequences, FiniteSets, TLC

VARIABLES
    pc,             \* position of main/campaign
    idx,            \* index of the running loop (pipeline, sweeps, modules, plots)
    missing,        \* programs absent from the machine (qe_bin content, mpirun)
    rank_sweep,     \* args.rank_sweep, parsed
    repeat_count,   \* args.repeat_count
    cases,          \* campaign: cases (the outcome sequence)
    pipeline_ok,    \* campaign: pipeline_ok
    hp_scf_ok,      \* run_advanced_workflows locals
    epw_scf_ok,
    epw_nscf_ok,
    epw_w90_ok,
    epw_pw2wan_ok,
    rank_runs,      \* campaign: rank_runs
    repeat_runs,    \* campaign: repeat_runs
    metrics,        \* run_advanced_workflows: metrics
    exit_status,    \* what main returned (NoStatus while running)
    launches,       \* spy: the case of every program execution started, in order
    last,           \* spy: the latest executor call (inputs and result)
    deviations,     \* departures from the reference run so far
    setup,          \* campaign: what detect_qe_bin and prepare_dirs met and did
    report,         \* campaign: headline statistics and tables of the report stage
    fixture,        \* input of a function exercised on its own
    result          \* what that function returned

vars == <<pc, idx, missing, rank_sweep, repeat_count, cases, pipeline_ok,
          hp_scf_ok, epw_scf_ok, epw_nscf_ok, epw_w90_ok, epw_pw2wan_ok,
          rank_runs, repeat_runs, metrics, exit_status, launches, last,
          deviations, setup, report, fixture, result>>

----------------------------------------------------------------------------
(* Bounds of the model.                                                    *)

\* at most this many departures from the reference run (default options,
\* every program present and successful) in one campaign
MaxDeviations == 1
\* exit statuses range over 0..MaxRc (executor specification)
MaxRc == 2
\* wall times of one execution range over 1..MaxDur (executor specification)
MaxDur == 2
\* non-default --rank-sweep lists have at most this many entries
MaxRankEntries == 2
\* non-default --repeat-count values range over 0..MaxRepeat
MaxRepeat == 2
\* outcome sequences given to the report tables have at most this many records
MaxRecords == 3
\* the report tables are built at most this many times from the same records
MaxBuilds == 2
\* k-points of a band table
MaxKPoints == 2
\* matching lines in the output of one pw.x run of the smoke test
MaxLines == 2

----------------------------------------------------------------------------
(* Program constants.                                                      *)

MODULE_EXECUTABLES ==
    <<"cp.x", "neb.x", "hp.x", "epw.x", "xspectra.x", "all_currents.x",
      "turbo_davidson.x", "turbo_lanczos.x", "turbo_eels.x", "turbo_magnon.x",
      "turbo_spectrum.x">>

\* module[:-2] for each entry of MODULE_EXECUTABLES
ModuleStem(module) == SubSeq(module, 1, Len(module) - 2)

DefaultRankSweep == <<1, 2, 4, 8>>
DefaultRepeatCount == 5
DefaultPipelineRanks == 4

JOB_DONE == "JOB DONE."
EPW_MARKER == "Electron-Phonon interpolation"
BANNER_PROGRAM == "Program"
BANNER_STARTS == "starts"
ENERGY_LINE == "!    total energy"
FERMI_LINE == "the Fermi energy is"
NEB_BARRIER_LINE == "activation energy (->)"
NOT_CONVERGED == "convergence NOT achieved"
NNKP_FILE == "siepw.nnkp"
MPI_RETRY_LINE == "[validate_build] MPI launch failed; retrying serial execution."
WRAPPER_RETRY_LINE == "[validate_build] Wrapper MPI launch failed; retrying serial execution."

\* has_mpi_socket_error: markers
SocketMarkers ==
    {"PRTE ERROR", "No sockets were able to be opened",
     "No network interfaces were found", "bind() failed for port"}

pipeline_steps ==
    << [case |-> "pw_scf",     exe |-> "pw.x",      log |-> "pw_scf.log"],
       [case |-> "pw_bands",   exe |-> "pw.x",      log |-> "pw_bands.log"],
       [case |-> "bands_post", exe |-> "bands.x",   log |-> "si_bands_post.txt"],
       [case |-> "pw_nscf",    exe |-> "pw.x",      log |-> "pw_nscf.log"],
       [case |-> "dos",        exe |-> "dos.x",     log |-> "dos.log"],
       [case |-> "projwfc",    exe |-> "projwfc.x", log |-> "projwfc.log"],
       [case |-> "pp_charge",  exe |-> "pp.x",      log |-> "pp_charge.log"],
       [case |-> "pw_scf_ph",  exe |-> "pw.x",      log |-> "pw_scf_ph.log"],
       [case |-> "ph_gamma",   exe |-> "ph.x",      log |-> "ph_gamma.log"],
       [case |-> "ph_grid",    exe |-> "ph.x",      log |-> "ph_grid.log"] >>

serial_steps ==
    << [case |-> "q2r_ifc",      exe |-> "q2r.x",    log |-> "q2r.log"],
       [case |-> "matdyn_gamma", exe |-> "matdyn.x", log |-> "matdyn.log"] >>

plot_steps ==
    << [case |-> "plot_bands",      script |-> "plot_si_bands.py"],
       [case |-> "plot_dos",        script |-> "plot_si_dos.py"],
       [case |-> "plot_pdos",       script |-> "plot_si_pdos.py"],
       [case |-> "analyze_bandgap", script |-> "analyze_si_bandgap.py"] >>

epw_required == <<"pw.x", "wannier90.x", "pw2wannier90.x", "epw.x">>

\* programs whose absence the model explores; pw.x and ph.x are found by
\* detect_qe_bin before any step runs
OptionalPrograms ==
    {MODULE_EXECUTABLES[i] : i \in 1..Len(MODULE_EXECUTABLES)}
        \cup {"q2r.x", "matdyn.x", "wannier90.x", "pw2wannier90.x", "mpirun",
              "otool", "run_qe.sh"}

\* 'no value' markers of the spies (an exception has no exit status)
NoStatus == 0 - 1
NoRc == 0 - 1

----------------------------------------------------------------------------
(* External executions.                                                    *)

RCs == 0..MaxRc
Durations == 1..MaxDur

ExitRun(rc, out, files, dur) ==
    [kind |-> "exit", rc |-> rc, out |-> out, files |-> files, dur |-> dur]
\* subprocess.run raises TimeoutExpired
TimeoutRun == [kind |-> "timeout", rc |-> NoRc, out |-> {}, files |-> {}, dur |-> 1]
\* subprocess.run raises FileNotFoundError: the program cannot be started
OsErrorRun == [kind |-> "oserror", rc |-> NoRc, out |-> {}, files |-> {}, dur |-> 0]
NoRun == [kind |-> "none", rc |-> NoRc, out |-> {}, files |-> {}, dur |-> 0]

\* every execution the executor specification draws its inputs from
ExecTexts == SocketMarkers \cup {JOB_DONE, NOT_CONVERGED}
ExtRuns ==
    {ExitRun(rc, out, {}, d) : rc \in RCs, out \in SUBSET ExecTexts, d \in Durations}
        \cup {TimeoutRun, OsErrorRun}

----------------------------------------------------------------------------
(* Step executors.                                                         *)

\* run_command: the log is overwritten unless append; an exception (timeout,
\* program not startable) leaves the function without a return value
run_command(run, old_log, append) ==
    [raised |-> run.kind # "exit",
     rc     |-> run.rc,
     dur    |-> run.dur,
     log    |-> IF append THEN old_log \cup run.out ELSE run.out,
     files  |-> run.files]

has_mpi_socket_error(log) == \E marker \in SocketMarkers : marker \in log

has_job_done(log) == JOB_DONE \in log

has_epw_interpolation_marker(log) == EPW_MARKER \in log

\* Result of an executor call: cmds lists the commands it started, in order.
ExecResult(raised, rc, dur, log, files, cmds) ==
    [raised |-> raised, rc |-> rc, dur |-> dur, log |-> log, files |-> files,
     cmds |-> cmds]

\* run_mpi_qe retrying after any failed launch, socket marker or not
run_mpi_qe_retry_any_failure(primary, fallback) ==
    LET r1 == run_command(primary, {}, FALSE) IN
    IF r1.raised
    THEN ExecResult(TRUE, NoRc, 0, r1.log, r1.files, <<"mpirun">>)
    ELSE IF r1.rc = 0
    THEN ExecResult(FALSE, r1.rc, r1.dur, r1.log, r1.files, <<"mpirun">>)
    ELSE LET r2 == run_command(fallback, r1.log \cup {MPI_RETRY_LINE}, TRUE) IN
         IF r2.raised
         THEN ExecResult(TRUE, NoRc, 0, r2.log, r2.files, <<"mpirun", "serial">>)
         ELSE ExecResult(FALSE, r2.rc, r1.dur + r2.dur, r2.log,
                         r1.files \cup r2.files, <<"mpirun", "serial">>)

\* run_mpi_qe reporting the fallback's duration alone
run_mpi_qe_fallback_duration_only(primary, fallback) ==
    LET r1 == run_command(primary, {}, FALSE) IN
    IF r1.raised
    THEN ExecResult(TRUE, NoRc, 0, r1.log, r1.files, <<"mpirun">>)
    ELSE IF r1.rc = 0
    THEN ExecResult(FALSE, r1.rc, r1.dur, r1.log, r1.files, <<"mpirun">>)
    ELSE IF has_mpi_socket_error(r1.log)
    THEN LET r2 == run_command(fallback, r1.log \cup {MPI_RETRY_LINE}, TRUE) IN
         IF r2.raised
         THEN ExecResult(TRUE, NoRc, 0, r2.log, r2.files, <<"mpirun", "serial">>)
         ELSE ExecResult(FALSE, r2.rc, r2.dur, r2.log,
                         r1.files \cup r2.files, <<"mpirun", "serial">>)
    ELSE ExecResult(FALSE, r1.rc, r1.dur, r1.log, r1.files, <<"mpirun">>)

\* run_mpi_qe starting the serial program once more when the fallback failed
run_mpi_qe_retry_fallback(primary, fallback) ==
    LET r1 == run_command(primary, {}, FALSE) IN
    IF r1.raised
    THEN ExecResult(TRUE, NoRc, 0, r1.log, r1.files, <<"mpirun">>)
    ELSE IF r1.rc = 0
    THEN ExecResult(FALSE, r1.rc, r1.dur, r1.log, r1.files, <<"mpirun">>)
    ELSE IF has_mpi_socket_error(r1.log)
    THEN LET r2 == run_command(fallback, r1.log \cup {MPI_RETRY_LINE}, TRUE) IN
         IF r2.raised
         THEN ExecResult(TRUE, NoRc, 0, r2.log, r2.files, <<"mpirun", "serial">>)
         ELSE IF r2.rc = 0
         THEN ExecResult(FALSE, r2.rc, r1.dur + r2.dur, r2.log,
                         r1.files \cup r2.files, <<"mpirun", "serial">>)
         ELSE ExecResult(FALSE, r2.rc, r1.dur + r2.dur + r2.dur, r2.log,
                         r1.files \cup r2.files, <<"mpirun", "serial", "serial">>)
    ELSE ExecResult(FALSE, r1.rc, r1.dur, r1.log, r1.files, <<"mpirun">>)

\* run_mpi_qe: primary is the execution under mpirun, fallback the direct
\* (serial) execution of the same program, started only after a failed
\* primary whose log holds a socket marker
run_mpi_qe(primary, fallback) ==
    LET r1 == run_command(primary, {}, FALSE) IN
    IF r1.raised
    THEN ExecResult(TRUE, NoRc, 0, r1.log, r1.files, <<"mpirun">>)
    ELSE IF r1.rc = 0
    THEN ExecResult(FALSE, r1.rc, r1.dur, r1.log, r1.files, <<"mpirun">>)
    ELSE IF has_mpi_socket_error(r1.log)
    THEN LET r2 == run_command(fallback, r1.log \cup {MPI_RETRY_LINE}, TRUE) IN
         IF r2.raised
         THEN ExecResult(TRUE, NoRc, 0, r2.log, r2.files, <<"mpirun", "serial">>)
         ELSE ExecResult(FALSE, r2.rc, r1.dur + r2.dur, r2.log,
                         r1.files \cup r2.files, <<"mpirun", "serial">>)
    ELSE ExecResult(FALSE, r1.rc, r1.dur, r1.log, r1.files, <<"mpirun">>)

\* run_wrapper: the same protocol with run_qe.sh as the parallel launcher
run_wrapper(primary, fallback) ==
    LET r1 == run_command(primary, {}, FALSE) IN
    IF r1.raised
    THEN ExecResult(TRUE, NoRc, 0, r1.log, r1.files, <<"run_qe.sh">>)
    ELSE IF r1.rc = 0
    THEN ExecResult(FALSE, r1.rc, r1.dur, r1.log, r1.files, <<"run_qe.sh">>)
    ELSE IF has_mpi_socket_error(r1.log)
    THEN LET r2 == run_command(fallback, r1.log \cup {WRAPPER_RETRY_LINE}, TRUE) IN
         IF r2.raised
         THEN ExecResult(TRUE, NoRc, 0, r2.log, r2.files, <<"run_qe.sh", "serial">>)
         ELSE ExecResult(FALSE, r2.rc, r1.dur + r2.dur, r2.log,
                         r1.files \cup r2.files, <<"run_qe.sh", "serial">>)
    ELSE ExecResult(FALSE, r1.rc, r1.dur, r1.log, r1.files, <<"run_qe.sh">>)

\* a direct run_command call seen as an executor call
run_direct(run) ==
    LET r == run_command(run, {}, FALSE) IN
    ExecResult(r.raised, IF r.raised THEN NoRc ELSE r.rc,
               IF r.raised THEN 0 ELSE r.dur, r.log, r.files, <<"direct">>)

\* the spy's record of an executor call; the fallback input is kept only
\* when the fallback was started
Call(case, via, primary, fallback, res) ==
    [case |-> case, via |-> via, primary |-> primary,
     fallback |-> IF Len(res.cmds) = 2 THEN fallback ELSE NoRun,
     res |-> res]

NoCall ==
    [case |-> "", via |-> "none", primary |-> NoRun, fallback |-> NoRun,
     res |-> ExecResult(FALSE, NoRc, 0, {}, {}, <<>>)]

----------------------------------------------------------------------------
(* The campaign: state after main's parse_args, and what the environment   *)
(* may answer.                                                             *)

\* the socket marker the campaign's environment writes (one of SocketMarkers)
TransportText == "PRTE ERROR"

\* exit statuses of the campaign's programs, one of each class the code
\* tells apart: 0, 1 (accepted for neb.x) and 2 (accepted nowhere)
ExitCodes == {0, 1, 2}

\* the executions a campaign step may see: any exit status, each of the
\* given texts with or without a socket marker, the files or none; or a timeout
StepRuns(texts, gfiles) ==
    {ExitRun(rc, out, files, 1) :
        rc \in ExitCodes,
        out \in texts \cup {t \cup {TransportText} : t \in texts},
        files \in {{}, gfiles}}
        \cup {TimeoutRun}

\* the executions of a program started directly after a failed launch: it
\* opens no sockets, so it writes no socket marker
SerialRuns(texts, gfiles) ==
    {ExitRun(rc, out, files, 1) : rc \in ExitCodes, out \in texts, files \in {{}, gfiles}}
        \cup {TimeoutRun}

\* what the environment may answer to the first execution of a step: a
\* program that is absent cannot be started; once the deviations are spent,
\* only the reference execution is left
Draw(program, runs, reference) ==
    IF program \in missing THEN {OsErrorRun}
    ELSE IF deviations < MaxDeviations THEN runs
    ELSE {reference}

\* what it may answer to the serial fallback, if the executor starts one
DrawFallback(program, runs, started) ==
    IF ~started THEN {NoRun}
    ELSE IF program \in missing THEN {OsErrorRun}
    ELSE runs

\* the reference execution of a step: exit 0, the expected text and files
Reference(good, gfiles) == ExitRun(0, good, gfiles, 1)

Cost(run, reference) == IF run = reference \/ run.kind = "oserror" THEN 0 ELSE 1

Spend(n) ==
    /\ deviations + n <= MaxDeviations
    /\ deviations' = deviations + n

SeqsUpTo(S, n) == UNION {[1..k -> S] : k \in 0..n}

Ranks == {1, 2}
RankSweepOptions == {DefaultRankSweep} \cup SeqsUpTo(Ranks, MaxRankEntries)
RepeatOptions == {DefaultRepeatCount} \cup 0..MaxRepeat

\* the programs started by an executor call, for the launch spy
Launched(call) ==
    LET k1 == IF call.primary.kind \in {"exit", "timeout"} THEN 1 ELSE 0
        k2 == IF call.fallback.kind \in {"exit", "timeout"} THEN 1 ELSE 0
    IN  [i \in 1..(k1 + k2) |-> call.case]

\* CaseResult and campaign.add_case
CaseResult(name, status, duration_s, note) ==
    [case |-> name, status |-> status, duration_s |-> duration_s, note |-> note]

\* recording at the front of the sequence
add_case_front(cs, name, status, duration_s, note) ==
    <<CaseResult(name, status, duration_s, note)>> \o cs

add_case(cs, name, status, duration_s, note) ==
    Append(cs, CaseResult(name, status, duration_s, note))

Verdict(ok) == IF ok THEN "PASS" ELSE "FAIL"

\* str.startswith
StartsWith(text, prefix) ==
    Len(text) >= Len(prefix) /\ SubSeq(text, 1, Len(prefix)) = prefix
\* [c.case for c in cases]
CaseNames(cs) == [i \in DOMAIN cs |-> cs[i].case]

config == <<missing, rank_sweep, repeat_count>>
chain == <<hp_scf_ok, epw_scf_ok, epw_nscf_ok, epw_w90_ok, epw_pw2wan_ok>>
sweeps == <<rank_runs, repeat_runs>>
aside == <<fixture, result>>

NoSetup == [done |-> FALSE]
NoReport == [written |-> FALSE]
NoFixture == [kind |-> "none"]
NoResult == [kind |-> "none"]

InitialMetrics ==
    [hp_determine_num_pert_only |-> "NA", neb_activation_energy_eV |-> "NA",
     epw_interpolation_marker |-> "NO"]

Init ==
    /\ pc = "setup"
    /\ idx = 0
    /\ missing \in {m \in SUBSET OptionalPrograms : Cardinality(m) <= MaxDeviations}
    /\ deviations = Cardinality(missing)
    /\ rank_sweep = DefaultRankSweep
    /\ repeat_count = DefaultRepeatCount
    /\ cases = <<>>
    /\ pipeline_ok = TRUE
    /\ hp_scf_ok = FALSE
    /\ epw_scf_ok = FALSE
    /\ epw_nscf_ok = FALSE
    /\ epw_w90_ok = FALSE
    /\ epw_pw2wan_ok = FALSE
    /\ rank_runs = <<>>
    /\ repeat_runs = <<>>
    /\ metrics = InitialMetrics
    /\ exit_status = NoStatus
    /\ launches = <<>>
    /\ last = NoCall
    /\ setup = NoSetup
    /\ report = NoReport
    /\ fixture = NoFixture
    /\ result = NoResult

\* an exception leaves campaign; main's except clause returns 2
Raise ==
    /\ pc' = "returned"
    /\ exit_status' = 2
    /\ UNCHANGED <<idx, cases, pipeline_ok, chain, sweeps, metrics>>

\* args.qe_bin when --qe-bin is not given
None == "None"
\* the directory an explicit --qe-bin names
ExplicitDir == "--qe-bin"
\* detect_qe_bin: candidates, in the order they are tried
candidates ==
    <<"QE_BIN_PATH", "artifacts/q-e-qe-7.5/bin", "artifacts/q-e-qe-7.4.1/bin",
      "~/opt/qe-7.5/bin", "~/opt/qe-7.4.1/bin">>

RECURSIVE FirstIn(_, _)
\* the first entry of seq that lies in S, or None
FirstIn(seq, S) ==
    IF seq = <<>> THEN None
    ELSE IF Head(seq) \in S THEN Head(seq)
    ELSE FirstIn(Tail(seq), S)

\* detect_qe_bin with the explicit directory dropped when it is not usable
detect_qe_bin_fallthrough(explicit, usable) ==
    IF explicit # None /\ explicit \in usable THEN explicit
    ELSE FirstIn(candidates, usable)

\* detect_qe_bin: usable are the directories where pw.x and ph.x are files;
\* None stands for the FileNotFoundError it raises
detect_qe_bin(explicit, usable) ==
    IF explicit # None
    THEN IF explicit \in usable THEN explicit ELSE None
    ELSE FirstIn(candidates, usable)

\* the machines a campaign is started on: --qe-bin given or not, and which
\* directories hold pw.x and ph.x
SetupDirs == {ExplicitDir, candidates[2], candidates[4]}
ReferenceEnv == [explicit |-> None, usable |-> {candidates[2]}]
SetupEnvs == [explicit : {None, ExplicitDir}, usable : SUBSET SetupDirs]

\* parse_args, detect_qe_bin, prepare_dirs, write_inputs
Setup ==
    /\ pc = "setup"
    /\ \E env \in SetupEnvs,
          outcome \in {"ok", "prepare_dirs_error", "write_inputs_error"},
          rs \in RankSweepOptions, n \in RepeatOptions :
        LET qe_bin == detect_qe_bin(env.explicit, env.usable) IN
        /\ qe_bin = None => outcome = "ok"
        /\ Spend((IF rs = DefaultRankSweep THEN 0 ELSE 1)
                    + (IF n = DefaultRepeatCount THEN 0 ELSE 1)
                    + (IF env = ReferenceEnv THEN 0 ELSE 1)
                    + (IF outcome = "ok" THEN 0 ELSE 1))
        /\ rank_sweep' = rs
        /\ repeat_count' = n
        /\ setup' = [done |-> TRUE, explicit |-> env.explicit, usable |-> env.usable,
                     qe_bin |-> qe_bin,
                     prepared |-> qe_bin # None /\ outcome # "prepare_dirs_error"]
        /\ IF qe_bin # None /\ outcome = "ok"
           THEN /\ pc' = "linkage"
                /\ UNCHANGED exit_status
           ELSE /\ pc' = "returned"
                /\ exit_status' = 2
    /\ UNCHANGED <<idx, missing, report, aside, cases, pipeline_ok, chain, sweeps,
                   metrics, launches, last>>

\* 1) linkage_check and its record
Linkage ==
    /\ pc = "linkage"
    /\ UNCHANGED <<config, setup, report, aside, launches, last>>
    /\ IF "otool" \in missing
       THEN Raise /\ UNCHANGED deviations
       ELSE \E ok_linkage \in BOOLEAN :
              /\ Spend(IF ok_linkage THEN 0 ELSE 1)
              /\ cases' = add_case(cases, "linkage_qe_bins", Verdict(ok_linkage),
                                   1, "linkage_check.log")
              /\ pc' = "pipeline"
              /\ idx' = 1
              /\ UNCHANGED <<pipeline_ok, chain, sweeps, metrics, exit_status>>

JobDoneTexts == {{}, {JOB_DONE}}
JobDoneRef == Reference({JOB_DONE}, {})

\* a verdict that trusts the exit status alone
pipeline_status_exit_only(res) == Verdict(res.rc = 0)

\* the verdict of a pipeline step: exit status 0 and the completion marker
pipeline_status(res) == Verdict(res.rc = 0 /\ has_job_done(res.log))

\* 2) one iteration of the core-workflow loop
PipelineStep ==
    /\ pc = "pipeline"
    /\ UNCHANGED <<config, setup, report, aside, chain, sweeps>>
    /\ LET step == pipeline_steps[idx] IN
       \E p \in Draw("mpirun", StepRuns(JobDoneTexts, {}), JobDoneRef) :
       \E f \in DrawFallback(step.exe, SerialRuns(JobDoneTexts, {}),
                              Len(run_mpi_qe(p, NoRun).cmds) = 2) :
         LET res  == run_mpi_qe(p, f)
             call == Call(step.case, "run_mpi_qe", p, f, res)
             status == pipeline_status(res)
         IN  /\ Spend(Cost(p, JobDoneRef))
             /\ last' = call
             /\ launches' = launches \o Launched(call)
             /\ IF res.raised
                THEN Raise
                ELSE /\ cases' = add_case(cases, step.case, status, res.dur,
                                          "ranks=" \o ToString(DefaultPipelineRanks))
                     /\ pipeline_ok' = IF status = "FAIL" THEN FALSE ELSE pipeline_ok
                     /\ IF idx < Len(pipeline_steps)
                        THEN pc' = pc /\ idx' = idx + 1
                        ELSE pc' = "serial" /\ idx' = 1
                     /\ UNCHANGED <<metrics, exit_status>>

\* one iteration of the q2r / matdyn loop (serial invocation)
SerialStep ==
    /\ pc = "serial"
    /\ UNCHANGED <<config, setup, report, aside, chain, sweeps>>
    /\ LET step == serial_steps[idx] IN
       \E p \in Draw(step.exe, StepRuns(JobDoneTexts, {}), JobDoneRef) :
         LET res  == run_direct(p)
             call == Call(step.case, "run_command", p, NoRun, res)
             status == Verdict(res.rc = 0 /\ has_job_done(res.log))
         IN  /\ Spend(Cost(p, JobDoneRef))
             /\ last' = call
             /\ launches' = launches \o Launched(call)
             /\ IF res.raised
                THEN Raise
                ELSE /\ cases' = add_case(cases, step.case, status, res.dur, "serial")
                     /\ pipeline_ok' = IF status = "FAIL" THEN FALSE ELSE pipeline_ok
                     /\ IF idx < Len(serial_steps)
                        THEN pc' = pc /\ idx' = idx + 1
                        ELSE pc' = "wrapper_pw" /\ idx' = 0
                     /\ UNCHANGED <<metrics, exit_status>>

AfterRankSweep == IF repeat_count > 0 THEN "repeat" ELSE "modules"
AfterWrappers == IF Len(rank_sweep) > 0 THEN "rank_sweep" ELSE AfterRankSweep

\* 3) the two wrapper checks
WrapperStep(at, case, exe, next) ==
    /\ pc = at
    /\ UNCHANGED <<config, setup, report, aside, pipeline_ok, chain, sweeps>>
    /\ \E p \in Draw("run_qe.sh", StepRuns(JobDoneTexts, {}), JobDoneRef) :
       \E f \in DrawFallback(exe, SerialRuns(JobDoneTexts, {}),
                              Len(run_wrapper(p, NoRun).cmds) = 2) :
         LET res  == run_wrapper(p, f)
             call == Call(case, "run_wrapper", p, f, res)
         IN  /\ Spend(Cost(p, JobDoneRef))
             /\ last' = call
             /\ launches' = launches \o Launched(call)
             /\ IF res.raised
                THEN Raise
                ELSE /\ cases' = add_case(cases, case,
                                          Verdict(res.rc = 0 /\ has_job_done(res.log)),
                                          res.dur, "run_qe.sh")
                     /\ pc' = next
                     /\ idx' = IF next \in {"rank_sweep", "repeat", "modules"} THEN 1 ELSE 0
                     /\ UNCHANGED <<metrics, exit_status>>

WrapperPw == WrapperStep("wrapper_pw", "wrapper_pw", "pw.x", "wrapper_ph")

WrapperPh == WrapperStep("wrapper_ph", "wrapper_ph", "ph.x", AfterWrappers)

----------------------------------------------------------------------------
(* Sweeps.                                                                 *)

\* numbers read from a log: distance from the reference value, in units
\* of the last printed digit
Readings == {0, 1}

\* the readings a sweep iteration may see
DrawReadings(passed) ==
    IF passed /\ deviations < MaxDeviations THEN Readings ELSE {0}

ParseOk(value) == [ok |-> TRUE, value |-> value, exc |-> ""]
ParseError(exc) == [ok |-> FALSE, value |-> 0, exc |-> exc]

\* parse_total_energy / parse_fermi: reading is the number the line carries
parse_total_energy(log, reading) ==
    IF ENERGY_LINE \in log THEN ParseOk(reading) ELSE ParseError("total energy not found")

parse_fermi(log, reading) ==
    IF FERMI_LINE \in log THEN ParseOk(reading) ELSE ParseError("Fermi level not found")

ScfRun(label, ranks, total_energy_ry, fermi_ev, duration_s) ==
    [label |-> label, ranks |-> ranks, total_energy_ry |-> total_energy_ry,
     fermi_ev |-> fermi_ev, duration_s |-> duration_s]

ScfTexts ==
    {{}, {JOB_DONE}, {JOB_DONE, ENERGY_LINE}, {JOB_DONE, ENERGY_LINE, FERMI_LINE}}
ScfRef == Reference({JOB_DONE, ENERGY_LINE, FERMI_LINE}, {})

\* a float: a number (in the units of Readings) or float("nan")
Num(v) == [nan |-> FALSE, v |-> v]
NaN == [nan |-> TRUE, v |-> 0]

\* the verdict of one sweep iteration: status, note and the parsed numbers
\* (total_energy and fermi start as float("nan"))
SweepVerdict(res, e, fe) ==
    IF res.rc # 0 \/ ~has_job_done(res.log)
    THEN [status |-> "FAIL", note |-> "command failed",
          total_energy |-> NaN, fermi |-> NaN]
    ELSE LET te == parse_total_energy(res.log, e)
             tf == parse_fermi(res.log, fe)
         IN  IF ~te.ok
             THEN [status |-> "FAIL", note |-> "parse failed: " \o te.exc,
                   total_energy |-> NaN, fermi |-> NaN]
             ELSE IF ~tf.ok
             THEN [status |-> "FAIL", note |-> "parse failed: " \o tf.exc,
                   total_energy |-> Num(te.value), fermi |-> NaN]
             ELSE [status |-> "PASS", note |-> "OK",
                   total_energy |-> Num(te.value), fermi |-> Num(tf.value)]

\* the run list with the run appended whatever the iteration's status
append_run_always(runs, status, run) == Append(runs, run)

\* if status == "PASS": runs.append(ScfRun(...))
append_run(runs, status, run) ==
    IF status = "PASS" THEN Append(runs, run) ELSE runs

\* 4) one iteration of the SCF rank sweep
RankStep ==
    /\ pc = "rank_sweep"
    /\ UNCHANGED <<config, setup, report, aside, pipeline_ok, chain, repeat_runs>>
    /\ LET ranks == rank_sweep[idx]
           case  == "scf_rank_" \o ToString(ranks)
       IN
       \E p \in Draw("mpirun", StepRuns(ScfTexts, {}), ScfRef) :
       \E f \in DrawFallback("pw.x", SerialRuns(ScfTexts, {}),
                              Len(run_mpi_qe(p, NoRun).cmds) = 2) :
       \E e \in DrawReadings(SweepVerdict(run_mpi_qe(p, f), 0, 0).status = "PASS"),
          fe \in DrawReadings(SweepVerdict(run_mpi_qe(p, f), 0, 0).status = "PASS") :
         LET res  == run_mpi_qe(p, f)
             call == Call(case, "run_mpi_qe", p, f, res)
             v    == SweepVerdict(res, e, fe)
         IN  /\ Spend(IF Cost(p, ScfRef) = 0 /\ e = 0 /\ fe = 0 THEN 0 ELSE 1)
             /\ last' = call
             /\ launches' = launches \o Launched(call)
             /\ IF res.raised
                THEN Raise /\ UNCHANGED rank_runs
                ELSE /\ cases' = add_case(cases, case, v.status, res.dur, v.note)
                     /\ rank_runs' =
                          append_run(rank_runs, v.status,
                                     ScfRun("rank_" \o ToString(ranks), ranks,
                                            v.total_energy, v.fermi, res.dur))
                     /\ IF idx < Len(rank_sweep)
                        THEN pc' = pc /\ idx' = idx + 1
                        ELSE pc' = AfterRankSweep /\ idx' = 1
                     /\ UNCHANGED <<metrics, exit_status>>

\* 5) one iteration of the SCF repeatability loop
RepeatStep ==
    /\ pc = "repeat"
    /\ UNCHANGED <<config, setup, report, aside, pipeline_ok, chain, rank_runs>>
    /\ LET repeat_rank == IF DefaultPipelineRanks < 4 THEN DefaultPipelineRanks ELSE 4
           case == "scf_repeat_" \o ToString(idx)
       IN
       \E p \in Draw("mpirun", StepRuns(ScfTexts, {}), ScfRef) :
       \E f \in DrawFallback("pw.x", SerialRuns(ScfTexts, {}),
                              Len(run_mpi_qe(p, NoRun).cmds) = 2) :
       \E e \in DrawReadings(SweepVerdict(run_mpi_qe(p, f), 0, 0).status = "PASS"),
          fe \in DrawReadings(SweepVerdict(run_mpi_qe(p, f), 0, 0).status = "PASS") :
         LET res  == run_mpi_qe(p, f)
             call == Call(case, "run_mpi_qe", p, f, res)
             v    == SweepVerdict(res, e, fe)
         IN  /\ Spend(IF Cost(p, ScfRef) = 0 /\ e = 0 /\ fe = 0 THEN 0 ELSE 1)
             /\ last' = call
             /\ launches' = launches \o Launched(call)
             /\ IF res.raised
                THEN Raise /\ UNCHANGED repeat_runs
                ELSE /\ cases' = add_case(cases, case, v.status, res.dur, v.note)
                     /\ repeat_runs' =
                          append_run(repeat_runs, v.status,
                                     ScfRun("repeat_" \o ToString(idx), repeat_rank,
                                            v.total_energy, v.fermi, res.dur))
                     /\ IF idx < repeat_count
                        THEN pc' = pc /\ idx' = idx + 1
                        ELSE pc' = "modules" /\ idx' = 1
                     /\ UNCHANGED <<metrics, exit_status>>

----------------------------------------------------------------------------
(* Module launch checks.                                                   *)

BannerTexts == {{}, {BANNER_PROGRAM}, {BANNER_PROGRAM, BANNER_STARTS}}
BannerRef == Reference({BANNER_PROGRAM, BANNER_STARTS}, {})

\* 6) one iteration of the module launch loop
ModuleStep ==
    /\ pc = "modules"
    /\ UNCHANGED <<config, setup, report, aside, pipeline_ok, chain, sweeps, metrics>>
    /\ LET module == MODULE_EXECUTABLES[idx]
           case   == "module_" \o ModuleStem(module) \o "_launch"
           advance ==
              /\ IF idx < Len(MODULE_EXECUTABLES)
                 THEN pc' = pc /\ idx' = idx + 1
                 ELSE pc' = "hp_scf" /\ idx' = 0
              /\ UNCHANGED exit_status
       IN
       IF module \in missing
       THEN /\ cases' = add_case(cases, case, "FAIL", 0, "missing executable")
            /\ advance
            /\ UNCHANGED <<launches, last, deviations>>
       ELSE \E p \in Draw(module, StepRuns(BannerTexts, {}), BannerRef) :
              LET res  == run_direct(p)
                  call == Call(case, "run_command", p, NoRun, res)
                  ok   == BANNER_PROGRAM \in res.log /\ BANNER_STARTS \in res.log
              IN  /\ Spend(Cost(p, BannerRef))
                  /\ last' = call
                  /\ launches' = launches \o Launched(call)
                  /\ IF res.raised
                     THEN Raise
                     ELSE /\ cases' = add_case(cases, case, Verdict(ok), res.dur,
                                               "exit=" \o ToString(res.rc))
                          /\ advance

----------------------------------------------------------------------------
(* run_advanced_workflows: HP, NEB and EPW mini-workflows.                 *)
(* add_adv records through add_case.                                       *)

\* (qe_bin / exe).exists()
exists(program) == program \notin missing

\* HP: the missing-executables branch, else the Hubbard SCF
HpScf ==
    /\ pc = "hp_scf"
    /\ UNCHANGED <<config, setup, report, aside, pipeline_ok, sweeps, metrics, epw_scf_ok, epw_nscf_ok,
                   epw_w90_ok, epw_pw2wan_ok, idx>>
    /\ IF ~exists("pw.x") \/ ~exists("hp.x")
       THEN /\ cases' = add_case(
                          add_case(cases, "hp_scf_hubbard", "FAIL", 0, "missing pw.x/hp.x"),
                          "hp_num_pert", "FAIL", 0, "skipped (missing pw.x/hp.x)")
            /\ pc' = "neb"
            /\ UNCHANGED <<hp_scf_ok, exit_status, launches, last, deviations>>
       ELSE \E p \in Draw("pw.x", StepRuns(JobDoneTexts, {}), JobDoneRef) :
              LET res  == run_direct(p)
                  call == Call("hp_scf_hubbard", "run_command", p, NoRun, res)
                  ok   == res.rc = 0 /\ has_job_done(res.log)
              IN  /\ Spend(Cost(p, JobDoneRef))
                  /\ last' = call
                  /\ launches' = launches \o Launched(call)
                  /\ IF res.raised
                     THEN /\ pc' = "returned"
                          /\ exit_status' = 2
                          /\ UNCHANGED <<cases, hp_scf_ok>>
                     ELSE /\ hp_scf_ok' = ok
                          /\ cases' = add_case(cases, "hp_scf_hubbard", Verdict(ok),
                                               res.dur, "prefix=sihp")
                          /\ pc' = "hp_num_pert"
                          /\ UNCHANGED exit_status

\* HP: hp.x is run and judged (the gate's open branch)
HpNumPertRun ==
    \E p \in Draw("hp.x", StepRuns(JobDoneTexts, {}), JobDoneRef) :
      LET res  == run_direct(p)
          call == Call("hp_num_pert", "run_command", p, NoRun, res)
          hp_ok == res.rc = 0 /\ has_job_done(res.log)
      IN  /\ Spend(Cost(p, JobDoneRef))
          /\ last' = call
          /\ launches' = launches \o Launched(call)
          /\ IF res.raised
             THEN /\ pc' = "returned"
                  /\ exit_status' = 2
                  /\ UNCHANGED <<cases, metrics>>
             ELSE /\ cases' = add_case(cases, "hp_num_pert", Verdict(hp_ok),
                                       res.dur, "determine_num_pert_only")
                  /\ metrics' = IF hp_ok
                                THEN [metrics EXCEPT !.hp_determine_num_pert_only = "PASS"]
                                ELSE metrics
                  /\ pc' = "neb"
                  /\ UNCHANGED exit_status

\* HP: hp.x is skipped (the gate's closed branch)
HpNumPertSkip ==
    /\ cases' = add_case(cases, "hp_num_pert", "FAIL", 0,
                         "skipped (hp_scf_hubbard failed)")
    /\ pc' = "neb"
    /\ UNCHANGED <<metrics, exit_status, launches, last, deviations>>

\* a gate that lets hp.x run whatever the Hubbard SCF did
HpNumPert_ungated ==
    /\ pc = "hp_num_pert"
    /\ UNCHANGED <<config, setup, report, aside, pipeline_ok, sweeps, chain, idx>>
    /\ HpNumPertRun

\* HP: hp.x behind its gate
HpNumPert ==
    /\ pc = "hp_num_pert"
    /\ UNCHANGED <<config, setup, report, aside, pipeline_ok, sweeps, chain, idx>>
    /\ IF hp_scf_ok THEN HpNumPertRun ELSE HpNumPertSkip

NebTexts == {{}, {JOB_DONE}, {NEB_BARRIER_LINE}, {JOB_DONE, NEB_BARRIER_LINE}}
NebRef == Reference({JOB_DONE, NEB_BARRIER_LINE}, {})
\* f"{barrier:.6f}" of the barrier the reference log carries
BarrierText == "0.100000"

\* parse_neb_activation_ev: None when the line is absent
parse_neb_activation_ev(log) ==
    IF NEB_BARRIER_LINE \in log THEN ParseOk(BarrierText) ELSE ParseError("None")

\* the NEB verdict accepting exit status 0 only
neb_ok_exit_zero(res) == has_job_done(res.log) /\ res.rc = 0

\* neb_ok = neb_done and neb_rc in (0, 1)
neb_ok(res) == has_job_done(res.log) /\ res.rc \in {0, 1}

\* NEB mini-workflow
Neb ==
    /\ pc = "neb"
    /\ UNCHANGED <<config, setup, report, aside, pipeline_ok, sweeps, chain, idx>>
    /\ IF ~exists("neb.x")
       THEN /\ cases' = add_case(cases, "neb_path_mini", "FAIL", 0, "missing neb.x")
            /\ pc' = "epw_scf"
            /\ UNCHANGED <<metrics, exit_status, launches, last, deviations>>
       ELSE \E p \in Draw("neb.x", StepRuns(NebTexts, {}), NebRef) :
              LET res  == run_direct(p)
                  call == Call("neb_path_mini", "run_command", p, NoRun, res)
                  barrier == parse_neb_activation_ev(res.log)
                  note == IF barrier.ok THEN "barrier=" \o barrier.value \o " eV"
                          ELSE "exit=" \o ToString(res.rc)
              IN  /\ Spend(Cost(p, NebRef))
                  /\ last' = call
                  /\ launches' = launches \o Launched(call)
                  /\ IF res.raised
                     THEN /\ pc' = "returned"
                          /\ exit_status' = 2
                          /\ UNCHANGED <<cases, metrics>>
                     ELSE /\ cases' = add_case(cases, "neb_path_mini", Verdict(neb_ok(res)),
                                               res.dur, note)
                          /\ metrics' = IF barrier.ok
                                        THEN [metrics EXCEPT !.neb_activation_energy_eV = barrier.value]
                                        ELSE metrics
                          /\ pc' = "epw_scf"
                          /\ UNCHANGED exit_status

RECURSIVE JoinComma(_)
\* ",".join(names)
JoinComma(names) ==
    IF Len(names) = 0 THEN ""
    ELSE IF Len(names) = 1 THEN names[1]
    ELSE names[1] \o "," \o JoinComma(Tail(names))

\* the epw_required entries that are absent, in list order
EpwMissing == SelectSeq(epw_required, LAMBDA exe : ~exists(exe))

\* EPW: the missing-stack branch, else the SCF link
EpwScf ==
    /\ pc = "epw_scf"
    /\ UNCHANGED <<config, setup, report, aside, pipeline_ok, sweeps, metrics, hp_scf_ok, epw_nscf_ok,
                   epw_w90_ok, epw_pw2wan_ok>>
    /\ IF Len(EpwMissing) > 0
       THEN /\ cases' = cases \o
                 << CaseResult("epw_scf", "FAIL", 0, "missing " \o JoinComma(EpwMissing)),
                    CaseResult("epw_nscf", "FAIL", 0, "skipped (missing EPW stack)"),
                    CaseResult("epw_wannier90_pp", "FAIL", 0, "skipped (missing EPW stack)"),
                    CaseResult("epw_pw2wannier90", "FAIL", 0, "skipped (missing EPW stack)"),
                    CaseResult("epw_interp", "FAIL", 0, "skipped (missing EPW stack)") >>
            /\ pc' = "plots"
            /\ idx' = 1
            /\ UNCHANGED <<epw_scf_ok, exit_status, launches, last, deviations>>
       ELSE \E p \in Draw("pw.x", StepRuns(JobDoneTexts, {}), JobDoneRef) :
              LET res  == run_direct(p)
                  call == Call("epw_scf", "run_command", p, NoRun, res)
                  ok   == res.rc = 0 /\ has_job_done(res.log)
              IN  /\ Spend(Cost(p, JobDoneRef))
                  /\ last' = call
                  /\ launches' = launches \o Launched(call)
                  /\ idx' = idx
                  /\ IF res.raised
                     THEN /\ pc' = "returned"
                          /\ exit_status' = 2
                          /\ UNCHANGED <<cases, epw_scf_ok>>
                     ELSE /\ epw_scf_ok' = ok
                          /\ cases' = add_case(cases, "epw_scf", Verdict(ok), res.dur,
                                               "prefix=siepw")
                          /\ pc' = "epw_nscf"
                          /\ UNCHANGED exit_status

\* EPW: NSCF behind its gate
EpwNscf ==
    /\ pc = "epw_nscf"
    /\ UNCHANGED <<config, setup, report, aside, pipeline_ok, sweeps, metrics, hp_scf_ok, epw_scf_ok,
                   epw_w90_ok, epw_pw2wan_ok, idx>>
    /\ IF epw_scf_ok
       THEN \E p \in Draw("pw.x", StepRuns(JobDoneTexts, {}), JobDoneRef) :
              LET res  == run_direct(p)
                  call == Call("epw_nscf", "run_command", p, NoRun, res)
                  ok   == res.rc = 0 /\ has_job_done(res.log)
              IN  /\ Spend(Cost(p, JobDoneRef))
                  /\ last' = call
                  /\ launches' = launches \o Launched(call)
                  /\ IF res.raised
                     THEN /\ pc' = "returned"
                          /\ exit_status' = 2
                          /\ UNCHANGED <<cases, epw_nscf_ok>>
                     ELSE /\ epw_nscf_ok' = ok
                          /\ cases' = add_case(cases, "epw_nscf", Verdict(ok), res.dur,
                                               "8-point grid")
                          /\ pc' = "epw_w90"
                          /\ UNCHANGED exit_status
       ELSE /\ cases' = add_case(cases, "epw_nscf", "FAIL", 0, "skipped (epw_scf failed)")
            /\ pc' = "epw_w90"
            /\ UNCHANGED <<epw_nscf_ok, exit_status, launches, last, deviations>>

NnkpRef == Reference({}, {NNKP_FILE})

\* EPW: wannier90.x -pp behind its gate; its verdict rests on siepw.nnkp
EpwWannier90Pp ==
    /\ pc = "epw_w90"
    /\ UNCHANGED <<config, setup, report, aside, pipeline_ok, sweeps, metrics, hp_scf_ok, epw_scf_ok,
                   epw_nscf_ok, epw_pw2wan_ok, idx>>
    /\ IF epw_nscf_ok
       THEN \E p \in Draw("wannier90.x", StepRuns({{}}, {NNKP_FILE}), NnkpRef) :
              LET res  == run_direct(p)
                  call == Call("epw_wannier90_pp", "run_command", p, NoRun, res)
                  ok   == res.rc = 0 /\ NNKP_FILE \in res.files
              IN  /\ Spend(Cost(p, NnkpRef))
                  /\ last' = call
                  /\ launches' = launches \o Launched(call)
                  /\ IF res.raised
                     THEN /\ pc' = "returned"
                          /\ exit_status' = 2
                          /\ UNCHANGED <<cases, epw_w90_ok>>
                     ELSE /\ epw_w90_ok' = ok
                          /\ cases' = add_case(cases, "epw_wannier90_pp", Verdict(ok),
                                               res.dur, "seed=siepw")
                          /\ pc' = "epw_pw2wan"
                          /\ UNCHANGED exit_status
       ELSE /\ cases' = add_case(cases, "epw_wannier90_pp", "FAIL", 0,
                                 "skipped (epw_nscf failed)")
            /\ pc' = "epw_pw2wan"
            /\ UNCHANGED <<epw_w90_ok, exit_status, launches, last, deviations>>

\* EPW: pw2wannier90.x behind its gate
EpwPw2wannier90 ==
    /\ pc = "epw_pw2wan"
    /\ UNCHANGED <<config, setup, report, aside, pipeline_ok, sweeps, metrics, hp_scf_ok, epw_scf_ok,
                   epw_nscf_ok, epw_w90_ok, idx>>
    /\ IF epw_w90_ok
       THEN \E p \in Draw("pw2wannier90.x", StepRuns(JobDoneTexts, {}), JobDoneRef) :
              LET res  == run_direct(p)
                  call == Call("epw_pw2wannier90", "run_command", p, NoRun, res)
                  ok   == res.rc = 0 /\ has_job_done(res.log)
              IN  /\ Spend(Cost(p, JobDoneRef))
                  /\ last' = call
                  /\ launches' = launches \o Launched(call)
                  /\ IF res.raised
                     THEN /\ pc' = "returned"
                          /\ exit_status' = 2
                          /\ UNCHANGED <<cases, epw_pw2wan_ok>>
                     ELSE /\ epw_pw2wan_ok' = ok
                          /\ cases' = add_case(cases, "epw_pw2wannier90", Verdict(ok),
                                               res.dur, "AMN/MMN")
                          /\ pc' = "epw_interp"
                          /\ UNCHANGED exit_status
       ELSE /\ cases' = add_case(cases, "epw_pw2wannier90", "FAIL", 0,
                                 "skipped (epw_wannier90_pp failed)")
            /\ pc' = "epw_interp"
            /\ UNCHANGED <<epw_pw2wan_ok, exit_status, launches, last, deviations>>

EpwTexts == {{}, {EPW_MARKER}}
EpwRef == Reference({EPW_MARKER}, {})

\* EPW: epw.x behind its gate
EpwInterp ==
    /\ pc = "epw_interp"
    /\ UNCHANGED <<config, setup, report, aside, pipeline_ok, sweeps, chain>>
    /\ idx' = 1
    /\ IF epw_pw2wan_ok
       THEN \E p \in Draw("epw.x", StepRuns(EpwTexts, {}), EpwRef) :
              LET res  == run_direct(p)
                  call == Call("epw_interp", "run_command", p, NoRun, res)
                  epw_interp_ok == res.rc = 0 /\ has_epw_interpolation_marker(res.log)
              IN  /\ Spend(Cost(p, EpwRef))
                  /\ last' = call
                  /\ launches' = launches \o Launched(call)
                  /\ IF res.raised
                     THEN /\ pc' = "returned"
                          /\ exit_status' = 2
                          /\ UNCHANGED <<cases, metrics>>
                     ELSE /\ cases' = add_case(cases, "epw_interp", Verdict(epw_interp_ok),
                                               res.dur, "interpolation mode")
                          /\ metrics' = [metrics EXCEPT !.epw_interpolation_marker =
                                            IF epw_interp_ok THEN "YES" ELSE "NO"]
                          /\ pc' = "plots"
                          /\ UNCHANGED exit_status
       ELSE /\ cases' = add_case(cases, "epw_interp", "FAIL", 0,
                                 "skipped (epw_pw2wannier90 failed)")
            /\ pc' = "plots"
            /\ UNCHANGED <<metrics, exit_status, launches, last, deviations>>

----------------------------------------------------------------------------
(* Plot scripts, report and return.                                        *)

PlotRef == Reference({}, {})

\* 9) one iteration of the plot / band-summary loop (run_plot_script)
PlotStep ==
    /\ pc = "plots"
    /\ UNCHANGED <<config, setup, report, aside, pipeline_ok, sweeps, chain, metrics>>
    /\ LET step == plot_steps[idx] IN
       \E p \in Draw("python", StepRuns({{}}, {}), PlotRef) :
         LET res  == run_direct(p)
             call == Call(step.case, "run_plot_script", p, NoRun, res)
         IN  /\ Spend(Cost(p, PlotRef))
             /\ last' = call
             /\ launches' = launches \o Launched(call)
             /\ IF res.raised
                THEN Raise
                ELSE /\ cases' = add_case(cases, step.case, Verdict(res.rc = 0),
                                          res.dur, step.script)
                     /\ IF idx < Len(plot_steps)
                        THEN pc' = pc /\ idx' = idx + 1
                        ELSE pc' = "report" /\ idx' = 0
                     /\ UNCHANGED exit_status

----------------------------------------------------------------------------
(* The report stage: headline statistics, roll-up and tables.              *)

\* x > y and x < y on floats: False as soon as one side is nan
FloatGt(x, y) == ~x.nan /\ ~y.nan /\ x.v > y.v
FloatLt(x, y) == ~x.nan /\ ~y.nan /\ x.v < y.v
FloatSub(x, y) == IF x.nan \/ y.nan THEN NaN ELSE Num(x.v - y.v)

RECURSIVE MaxFrom(_, _)
MaxFrom(m, xs) ==
    IF xs = <<>> THEN m
    ELSE MaxFrom(IF FloatGt(Head(xs), m) THEN Head(xs) ELSE m, Tail(xs))
RECURSIVE MinFrom(_, _)
MinFrom(m, xs) ==
    IF xs = <<>> THEN m
    ELSE MinFrom(IF FloatLt(Head(xs), m) THEN Head(xs) ELSE m, Tail(xs))
\* max(...) and min(...) of a non-empty sequence of floats
max(xs) == MaxFrom(Head(xs), Tail(xs))
min(xs) == MinFrom(Head(xs), Tail(xs))

\* max(...) - min(...) if runs else float("nan")
span(xs) == IF xs # <<>> THEN FloatSub(max(xs), min(xs)) ELSE NaN

RECURSIVE SeqSum(_)
SeqSum(xs) == IF xs = <<>> THEN 0 ELSE Head(xs) + SeqSum(Tail(xs))

\* a standard deviation: the square root of num / den, or nan
Sigma(num, den) == [nan |-> FALSE, num |-> num, den |-> den]
SigmaNaN == [nan |-> TRUE, num |-> 0, den |-> 1]

\* statistics.pstdev: squared deviations from the mean over n, i.e.
\* (n * sum(x^2) - sum(x)^2) / n^2 under the root
pstdev(xs) ==
    LET n == Len(xs)
        v == [i \in DOMAIN xs |-> xs[i].v]
        sq == [i \in DOMAIN xs |-> xs[i].v * xs[i].v]
    IN  IF \E i \in DOMAIN xs : xs[i].nan THEN SigmaNaN
        ELSE Sigma(n * SeqSum(sq) - SeqSum(v) * SeqSum(v), n * n)

\* statistics.pstdev(...) if len(repeat_runs) > 1 else float("nan")
sigma(xs) == IF Len(xs) > 1 THEN pstdev(xs) ELSE SigmaNaN

total_energies(runs) == [i \in DOMAIN runs |-> runs[i].total_energy_ry]
fermis(runs) == [i \in DOMAIN runs |-> runs[i].fermi_ev]

IsReproducibilityCase(name) ==
    StartsWith(name, "scf_rank_") \/ StartsWith(name, "scf_repeat_")
IsModuleCase(name) == StartsWith(name, "module_")

\* build_category_summary: categories, in dict order
categories(cs) ==
    << [category |-> "Core Workflow",
        names |-> <<"pw_scf", "pw_bands", "bands_post", "pw_nscf", "dos", "projwfc",
                    "pp_charge", "plot_bands", "plot_dos", "plot_pdos",
                    "analyze_bandgap">>],
       [category |-> "Phonon Chain",
        names |-> <<"pw_scf_ph", "ph_gamma", "ph_grid", "q2r_ifc", "matdyn_gamma",
                    "wrapper_ph">>],
       [category |-> "Reproducibility",
        names |-> SelectSeq(CaseNames(cs), IsReproducibilityCase)],
       [category |-> "Wrapper/Linkage", names |-> <<"linkage_qe_bins", "wrapper_pw">>],
       [category |-> "Advanced Workflows",
        names |-> <<"hp_scf_hubbard", "hp_num_pert", "neb_path_mini", "epw_scf",
                    "epw_nscf", "epw_wannier90_pp", "epw_pw2wannier90", "epw_interp">>],
       [category |-> "Optional Modules",
        names |-> SelectSeq(CaseNames(cs), IsModuleCase)] >>

\* lookup = {c.case: c.status for c in cases}: a later record of a name
\* replaces an earlier one
in_lookup(cs, name) == \E i \in DOMAIN cs : cs[i].case = name
lookup(cs, name) ==
    LET at == {i \in DOMAIN cs : cs[i].case = name}
        latest == CHOOSE i \in at : \A j \in at : j <= i
    IN  cs[latest].status

\* the roll-up with every declared name counted in total
build_category_summary_declared(cs) ==
    [k \in DOMAIN categories(cs) |->
        LET names == categories(cs)[k].names IN
        [category |-> categories(cs)[k].category,
         passed |-> Cardinality({n \in DOMAIN names :
                        in_lookup(cs, names[n]) /\ lookup(cs, names[n]) = "PASS"}),
         total |-> Len(names)]]

\* build_category_summary: (passed, total) per category
build_category_summary(cs) ==
    [k \in DOMAIN categories(cs) |->
        LET names == categories(cs)[k].names IN
        [category |-> categories(cs)[k].category,
         passed |-> Cardinality({n \in DOMAIN names :
                        in_lookup(cs, names[n]) /\ lookup(cs, names[n]) = "PASS"}),
         total |-> Cardinality({n \in DOMAIN names : in_lookup(cs, names[n])})]]

\* write_tsv: the header row, then the rows in order
write_tsv(header, rows) == <<header>> \o rows

\* f"{duration_s:.2f}" of a whole number of seconds
Fixed2(n) == ToString(n) \o ".00"

\* final_matrix.tsv with the number of earlier builds stamped on each row
final_matrix_stamped(cs) ==
    write_tsv(<<"case", "status", "duration_s", "note">>,
              [i \in DOMAIN cs |->
                  <<cs[i].case, cs[i].status, Fixed2(cs[i].duration_s),
                    cs[i].note \o IF result.kind = "tables"
                                  THEN ToString(Len(result.builds)) ELSE "">>])

\* tables/final_matrix.tsv
final_matrix(cs) ==
    write_tsv(<<"case", "status", "duration_s", "note">>,
              [i \in DOMAIN cs |->
                  <<cs[i].case, cs[i].status, Fixed2(cs[i].duration_s), cs[i].note>>])

REFERENCE_METRICS ==
    <<"SCF total energy (Ry)", "SCF Fermi (eV)", "DOS EFermi (eV)",
      "Indirect gap (eV)", "Direct gap (eV)">>

\* what the metrics stage may meet when it parses pw_scf.log, silicon.dos
\* and silicon.bands.dat.gnu: "" for nothing, else str(exc)
MetricsExceptions ==
    {"total energy not found", "Fermi level not found",
     "EFermi not found in silicon.dos", "No bands parsed from silicon.bands.dat.gnu"}

\* tables/metrics_compare.tsv: the rows (observed given as its distance from
\* the reference), or the ERROR row written by the except clause
metrics_compare(exc, observed) ==
    IF exc = ""
    THEN write_tsv(<<"metric", "reference", "observed", "delta(observed-reference)">>,
                   [i \in DOMAIN REFERENCE_METRICS |->
                       <<REFERENCE_METRICS[i], "ref", "ref+" \o ToString(observed[i]),
                         ToString(observed[i])>>])
    ELSE <<<<"metric", "reference", "observed", "delta(observed-reference)">>,
           <<"ERROR", "NA", "NA", exc>>>>

\* the tables of the report stage
tables(cs, exc, observed) ==
    [final_matrix |-> final_matrix(cs),
     metrics_compare |-> metrics_compare(exc, observed),
     category_summary |-> build_category_summary(cs)]

pass_count(cs) == Cardinality({i \in DOMAIN cs : cs[i].status = "PASS"})
fail_count(cs) == Len(cs) - pass_count(cs)

\* 10)-12) tables, report and campaign's return value, returned by main
Report ==
    /\ pc = "report"
    /\ \E exc \in IF deviations < MaxDeviations
                  THEN {""} \cup MetricsExceptions ELSE {""} :
       \E d \in IF exc = "" THEN DrawReadings(TRUE) ELSE {0} :
         /\ Spend(IF exc = "" /\ d = 0 THEN 0 ELSE 1)
         /\ report' =
              [written |-> TRUE,
               rank_energy_span |-> span(total_energies(rank_runs)),
               rank_fermi_span |-> span(fermis(rank_runs)),
               rep_energy_std |-> sigma(total_energies(repeat_runs)),
               rep_fermi_std |-> sigma(fermis(repeat_runs)),
               metrics_error |-> exc,
               tables |-> tables(cases, exc, <<d, 0, 0, 0, 0>>)]
    /\ pc' = "returned"
    /\ exit_status' = IF fail_count(cases) = 0 THEN 0 ELSE 1
    /\ UNCHANGED <<idx, config, setup, aside, cases, pipeline_ok, chain, sweeps, metrics,
                   launches, last>>

Next ==
    \/ Setup
    \/ Linkage
    \/ PipelineStep
    \/ SerialStep
    \/ WrapperPw
    \/ WrapperPh
    \/ RankStep
    \/ RepeatStep
    \/ ModuleStep
    \/ HpScf
    \/ HpNumPert
    \/ Neb
    \/ EpwScf
    \/ EpwNscf
    \/ EpwWannier90Pp
    \/ EpwPw2wannier90
    \/ EpwInterp
    \/ PlotStep
    \/ Report

Spec == Init /\ [][Next]_vars

----------------------------------------------------------------------------
(* The executors on their own: one call of run_mpi_qe or run_wrapper with  *)
(* any primary execution and, if a fallback is started, any fallback.      *)

ExecInit ==
    /\ Init
    /\ missing = {}

ExecRunMpiQe ==
    /\ pc = "setup"
    /\ \E p \in ExtRuns :
       \E f \in IF Len(run_mpi_qe(p, NoRun).cmds) = 2 THEN ExtRuns ELSE {NoRun} :
         LET call == Call("", "run_mpi_qe", p, f, run_mpi_qe(p, f)) IN
         /\ last' = call
         /\ launches' = Launched(call)
    /\ pc' = "called"
    /\ UNCHANGED <<idx, config, setup, report, aside, cases, pipeline_ok, chain, sweeps, metrics,
                   exit_status, deviations>>

ExecRunWrapper ==
    /\ pc = "setup"
    /\ \E p \in ExtRuns :
       \E f \in IF Len(run_wrapper(p, NoRun).cmds) = 2 THEN ExtRuns ELSE {NoRun} :
         LET call == Call("", "run_wrapper", p, f, run_wrapper(p, f)) IN
         /\ last' = call
         /\ launches' = Launched(call)
    /\ pc' = "called"
    /\ UNCHANGED <<idx, config, setup, report, aside, cases, pipeline_ok, chain, sweeps, metrics,
                   exit_status, deviations>>

ExecNext == ExecRunMpiQe \/ ExecRunWrapper

SpecExec == ExecInit /\ [][ExecNext]_vars

----------------------------------------------------------------------------
(* The report tables on their own: any short outcome sequence and metric   *)
(* set, from which the tables are built up to MaxBuilds times.             *)

\* the campaign's variables that a function exercised on its own leaves alone
CampaignIdle ==
    /\ idx = 0
    /\ missing = {}
    /\ deviations = 0
    /\ rank_sweep = DefaultRankSweep
    /\ repeat_count = DefaultRepeatCount
    /\ pipeline_ok = TRUE
    /\ hp_scf_ok = FALSE
    /\ epw_scf_ok = FALSE
    /\ epw_nscf_ok = FALSE
    /\ epw_w90_ok = FALSE
    /\ epw_pw2wan_ok = FALSE
    /\ rank_runs = <<>>
    /\ repeat_runs = <<>>
    /\ metrics = InitialMetrics
    /\ last = NoCall
    /\ setup = NoSetup
    /\ report = NoReport

campaign_vars ==
    <<idx, config, deviations, pipeline_ok, chain, sweeps, metrics, last, setup, report>>

\* case names of the outcome sequences tried: one of a fixed category, one
\* of each prefix category, one of no category
TableCaseNames == {"pw_scf", "wrapper_ph", "scf_rank_1", "module_cp_launch", "custom_case"}
TableCases ==
    {CaseResult(name, status, 1, "note") :
        name \in TableCaseNames, status \in {"PASS", "FAIL"}}

TablesInit ==
    /\ pc = "tables"
    /\ cases \in SeqsUpTo(TableCases, MaxRecords)
    /\ fixture \in [kind : {"tables"}, cases : {cases},
                    exc : {"", "total energy not found"},
                    observed : {<<0, 0, 0, 0, 0>>, <<1, 0, 0, 0, 0>>}]
    /\ result = [kind |-> "tables", builds |-> <<>>]
    /\ exit_status = NoStatus
    /\ launches = <<>>
    /\ CampaignIdle

\* one more build of the tables from the same records and metrics
BuildTables ==
    /\ pc = "tables"
    /\ Len(result.builds) < MaxBuilds
    /\ result' = [result EXCEPT
                     !.builds = Append(@, tables(cases, fixture.exc, fixture.observed))]
    /\ UNCHANGED <<pc, cases, fixture, exit_status, launches, campaign_vars>>

SpecTables == TablesInit /\ [][BuildTables]_vars

----------------------------------------------------------------------------
(* compute_gaps on its own: a band table energies[band][k] as parse_bands  *)
(* returns it, and a Fermi level.  Energies are in units of 0.5 eV.        *)

\* IEEE doubles: finite values, the two infinities and nan
Fin(v) == [k |-> "fin", v |-> v]
PInf == [k |-> "inf", v |-> 1]
NInf == [k |-> "inf", v |-> -1]
FloatNaN == [k |-> "nan", v |-> 0]

\* x <= y: False as soon as one side is nan
Le(x, y) ==
    /\ x.k # "nan"
    /\ y.k # "nan"
    /\ \/ x = y
       \/ x = NInf
       \/ y = PInf
       \/ x.k = "fin" /\ y.k = "fin" /\ x.v <= y.v
Ge(x, y) == Le(y, x)

\* x - y: inf - inf is nan
Sub(x, y) ==
    IF x.k = "nan" \/ y.k = "nan" THEN FloatNaN
    ELSE IF x.k = "fin" /\ y.k = "fin" THEN Fin(x.v - y.v)
    ELSE IF x.k = "inf" /\ y.k = "fin" THEN x
    ELSE IF x.k = "fin" /\ y.k = "inf" THEN [y EXCEPT !.v = -y.v]
    ELSE IF x.v = y.v THEN FloatNaN
    ELSE x

\* np.max / np.min of a non-empty collection: nan as soon as one entry is nan
np_max(S) ==
    IF FloatNaN \in S THEN FloatNaN ELSE CHOOSE m \in S : \A x \in S : Le(x, m)
np_min(S) ==
    IF FloatNaN \in S THEN FloatNaN ELSE CHOOSE m \in S : \A x \in S : Le(m, x)

\* valence with an energy at the Fermi level left out
valence_below_fermi(energies, fermi) ==
    [b \in DOMAIN energies |->
        [k \in DOMAIN energies[b] |->
            IF Le(energies[b][k], fermi) /\ energies[b][k] # fermi
            THEN energies[b][k] ELSE NInf]]

\* np.where(cond, energies, fill)
valence(energies, fermi) ==
    [b \in DOMAIN energies |->
        [k \in DOMAIN energies[b] |->
            IF Le(energies[b][k], fermi) THEN energies[b][k] ELSE NInf]]
conduction(energies, fermi) ==
    [b \in DOMAIN energies |->
        [k \in DOMAIN energies[b] |->
            IF Ge(energies[b][k], fermi) THEN energies[b][k] ELSE PInf]]

\* array.max(axis=0) / array.min(axis=0): over the bands, per k-point
max_axis0(array) ==
    [k \in DOMAIN array[1] |-> np_max({array[b][k] : b \in DOMAIN array})]
min_axis0(array) ==
    [k \in DOMAIN array[1] |-> np_min({array[b][k] : b \in DOMAIN array})]

Range(f) == {f[x] : x \in DOMAIN f}

\* the gaps with the direct gap taken between the global band edges
compute_gaps_global_edges(energies, fermi) ==
    LET valence_max_by_k == max_axis0(valence(energies, fermi))
        conduction_min_by_k == min_axis0(conduction(energies, fermi))
        vmax == np_max(Range(valence_max_by_k))
        cmin == np_min(Range(conduction_min_by_k))
    IN  [indirect |-> Sub(cmin, vmax), direct |-> Sub(cmin, vmax)]

\* compute_gaps: (indirect, direct)
compute_gaps(energies, fermi) ==
    LET valence_max_by_k == max_axis0(valence(energies, fermi))
        conduction_min_by_k == min_axis0(conduction(energies, fermi))
        vmax == np_max(Range(valence_max_by_k))
        cmin == np_min(Range(conduction_min_by_k))
    IN  [indirect |-> Sub(cmin, vmax),
         direct |-> np_min({Sub(conduction_min_by_k[k], valence_max_by_k[k]) :
                               k \in DOMAIN valence_max_by_k})]

\* the energies of the tables: -1.0, -0.5, 0.0, 1.0, 1.5 eV, inf and nan
BandEnergies == {Fin(-2), Fin(-1), Fin(0), Fin(2), Fin(3), PInf, FloatNaN}
FermiLevels == {Fin(0), Fin(2), PInf}
BandIndex == {1, 2}
BandTables == [BandIndex -> [1..MaxKPoints -> BandEnergies]]

GapsInit ==
    /\ pc = "compute_gaps"
    /\ fixture \in [kind : {"gaps"}, energies : BandTables, fermi : FermiLevels]
    /\ result = NoResult
    /\ cases = <<>>
    /\ exit_status = NoStatus
    /\ launches = <<>>
    /\ CampaignIdle

ComputeGaps ==
    /\ pc = "compute_gaps"
    /\ result = NoResult
    /\ result' = [kind |-> "gaps"] @@ compute_gaps(fixture.energies, fixture.fermi)
    /\ UNCHANGED <<pc, cases, fixture, exit_status, launches, campaign_vars>>

\* every entry of a two-dimensional array
Entries(array) == {array[b][k] : b \in DOMAIN array, k \in DOMAIN array[1]}

\* cases/si/convergence/run_convergence.py, run_single_case: the gaps it
\* stores as band_gap_ev and direct_gap_ev; deltas is taken entry by entry
run_single_case_gaps(energies, fermi) ==
    LET v_max == np_max(Entries(valence(energies, fermi)))
        c_min == np_min(Entries(conduction(energies, fermi)))
        deltas == [b \in DOMAIN energies |->
                      [k \in DOMAIN energies[b] |->
                          Sub(conduction(energies, fermi)[b][k],
                              valence(energies, fermi)[b][k])]]
    IN  [indirect |-> Sub(c_min, v_max), direct |-> np_min(Entries(deltas))]

ConvergenceGaps ==
    /\ pc = "compute_gaps"
    /\ result = NoResult
    /\ result' = [kind |-> "convergence"]
                    @@ run_single_case_gaps(fixture.energies, fixture.fermi)
    /\ UNCHANGED <<pc, cases, fixture, exit_status, launches, campaign_vars>>

GapsNext == ComputeGaps \/ ConvergenceGaps
SpecGaps == GapsInit /\ [][GapsNext]_vars

----------------------------------------------------------------------------
(* scripts/smoke_test.py: one SCF run checked against REFERENCE.           *)
(* Total energies are in units of 1e-5 Ry, Fermi levels in 1e-4 eV.        *)

REFERENCE_total_energy == -2283927
REFERENCE_fermi == 64346
REFERENCE_tolerance_energy == 100
REFERENCE_tolerance_fermi == 50

\* resolve_pw: the places pw.x is looked for, in order
pw_candidates ==
    <<"QE_PW_BIN", "QE_BIN_PATH/pw.x", "artifacts/q-e-qe-7.5/bin/pw.x",
      "artifacts/q-e-qe-7.4.1/bin/pw.x", "~/opt/qe-7.5/bin/pw.x",
      "~/opt/qe-7.4.1/bin/pw.x", "PATH">>
\* resolve_pw: the first place where pw.x exists, or None
resolve_pw(present) == FirstIn(pw_candidates, present)

\* the lines of tmp_smoke.out the parsing loop reacts to; text is what
\* float() is given: a number, nan, or a token float() rejects
EnergyLine(x) == [line |-> "!    total energy", ok |-> TRUE, value |-> x]
FermiLine(x) == [line |-> "the Fermi energy is", ok |-> TRUE, value |-> x]
BadEnergyLine == [line |-> "!    total energy", ok |-> FALSE, value |-> NaN]
SmokeLines ==
    {EnergyLine(Num(REFERENCE_total_energy)),
     EnergyLine(Num(REFERENCE_total_energy + REFERENCE_tolerance_energy + 1)),
     EnergyLine(NaN),
     BadEnergyLine,
     FermiLine(Num(REFERENCE_fermi)),
     FermiLine(Num(REFERENCE_fermi - REFERENCE_tolerance_fermi - 1)),
     FermiLine(NaN)}
SmokeOutputs == SeqsUpTo(SmokeLines, MaxLines)

IsEnergyLine(l) == l.line = "!    total energy"
IsFermiLine(l) == l.line = "the Fermi energy is"
\* the value the loop leaves in a variable: that of the last matching line,
\* <<>> for None
LastValue(lines) ==
    IF lines = <<>> THEN <<>> ELSE <<lines[Len(lines)].value>>

\* abs(x - ref) > tolerance: False when x is nan
OutsideTolerance(x, ref, tolerance) ==
    /\ ~x.nan
    /\ (IF x.v >= ref THEN x.v - ref ELSE ref - x.v) > tolerance

\* main, from the parsed values to the return value
smoke_verdict(total_energy, fermi) ==
    IF total_energy = <<>> \/ fermi = <<>> THEN 1
    ELSE IF OutsideTolerance(total_energy[1], REFERENCE_total_energy,
                             REFERENCE_tolerance_energy) THEN 1
    ELSE IF OutsideTolerance(fermi[1], REFERENCE_fermi, REFERENCE_tolerance_fermi) THEN 1
    ELSE 0

SmokeEnvs ==
    [kind : {"smoke"},
     present : SUBSET {pw_candidates[1], pw_candidates[3], pw_candidates[7]},
     input_exists : BOOLEAN,
     run_qe_exists : BOOLEAN]

SmokeInit ==
    /\ pc = "smoke_main"
    /\ fixture \in SmokeEnvs
    /\ result = [kind |-> "smoke", mode |-> "mpi", out |-> <<>>,
                 total_energy |-> <<>>, fermi |-> <<>>]
    /\ cases = <<>>
    /\ exit_status = NoStatus
    /\ launches = <<>>
    /\ CampaignIdle

\* main up to the first subprocess.run
SmokeMain ==
    /\ pc = "smoke_main"
    /\ IF \/ resolve_pw(fixture.present) = None
          \/ ~fixture.input_exists
          \/ ~fixture.run_qe_exists
       THEN /\ pc' = "returned"
            /\ exit_status' = 2
       ELSE /\ pc' = "smoke_wrapper"
            /\ UNCHANGED exit_status
    /\ UNCHANGED <<cases, fixture, result, launches, campaign_vars>>

\* subprocess.run of run_qe.sh with check=True, its output in tmp_smoke.out
SmokeWrapper ==
    /\ pc = "smoke_wrapper"
    /\ \E rc \in {0, 1}, out \in SmokeOutputs :
        /\ launches' = Append(launches, "run_qe.sh")
        /\ result' = [result EXCEPT !.out = out,
                                    !.mode = IF rc = 0 THEN "mpi" ELSE "serial_fallback"]
        /\ pc' = IF rc = 0 THEN "smoke_parse" ELSE "smoke_fallback"
    /\ UNCHANGED <<cases, fixture, exit_status, campaign_vars>>

\* except CalledProcessError: serial pw.x with check=True, appended to the
\* same file; its own CalledProcessError is caught nowhere
SmokeFallback ==
    /\ pc = "smoke_fallback"
    /\ \E rc \in {0, 1}, out \in SmokeOutputs :
        /\ launches' = Append(launches, "pw.x")
        /\ result' = [result EXCEPT !.out = @ \o out]
        /\ pc' = IF rc = 0 THEN "smoke_parse" ELSE "crashed"
    /\ UNCHANGED <<cases, fixture, exit_status, campaign_vars>>

\* the parsing loop and the verdict; float() of a rejected token raises
\* ValueError, caught nowhere
SmokeParse ==
    /\ pc = "smoke_parse"
    /\ IF \E i \in DOMAIN result.out : ~result.out[i].ok
       THEN /\ pc' = "crashed"
            /\ UNCHANGED <<result, exit_status>>
       ELSE LET total_energy == LastValue(SelectSeq(result.out, IsEnergyLine))
                fermi == LastValue(SelectSeq(result.out, IsFermiLine))
            IN  /\ result' = [result EXCEPT !.total_energy = total_energy,
                                            !.fermi = fermi]
                /\ exit_status' = smoke_verdict(total_energy, fermi)
                /\ pc' = "returned"
    /\ UNCHANGED <<cases, fixture, launches, campaign_vars>>

SmokeNext == SmokeMain \/ SmokeWrapper \/ SmokeFallback \/ SmokeParse
SpecSmoke == SmokeInit /\ [][SmokeNext]_vars

----------------------------------------------------------------------------
(* The files and directories a pw.x run of the campaign works on.          *)

\* rank sweep: make_scf_variant arguments and the log of one iteration
rank_variant(ranks) ==
    [prefix |-> "silicon_r" \o ToString(ranks),
     outdir |-> "./tmp_r" \o ToString(ranks),
     dst |-> "Si.scf.rank" \o ToString(ranks) \o ".in",
     log |-> "scf_rank_" \o ToString(ranks) \o ".log"]

\* repeat loop: make_scf_variant arguments and the log of one iteration
repeat_variant(i) ==
    [prefix |-> "silicon_rep" \o ToString(i),
     outdir |-> "./tmp_rep" \o ToString(i),
     dst |-> "Si.scf.repeat" \o ToString(i) \o ".in",
     log |-> "scf_repeat_" \o ToString(i) \o ".log"]

\* the two SCF runs of the main pipeline
pipeline_variants ==
    << [prefix |-> "silicon", outdir |-> "./tmp", dst |-> "Si.scf.in",
        log |-> "pw_scf.log"],
       [prefix |-> "siliconph", outdir |-> "./tmp_ph", dst |-> "Si.scf_ph.in",
        log |-> "pw_scf_ph.log"] >>

\* the sweep iterations that have been recorded, in order: those of the rank
\* sweep, then those of the repeat loop
RankIterationsRun == Cardinality({i \in DOMAIN cases : StartsWith(cases[i].case, "scf_rank_")})
RepeatIterationsRun == Cardinality({i \in DOMAIN cases : StartsWith(cases[i].case, "scf_repeat_")})
IterationsRun ==
    [i \in 1..RankIterationsRun |-> rank_variant(rank_sweep[i])]
        \o [i \in 1..RepeatIterationsRun |-> repeat_variant(i)]

----------------------------------------------------------------------------
(* Vocabulary of the properties.                                           *)

RecordsOf(c) == {i \in DOMAIN cases : cases[i].case = c}
Recorded(c) == RecordsOf(c) # {}
RecordedFail(c) == \E i \in RecordsOf(c) : cases[i].status = "FAIL"
WasLaunched(c) == \E i \in DOMAIN launches : launches[i] = c

\* the latest record is the record of the latest executor call, which returned
LatestIsLastCall ==
    /\ Len(cases) > 0
    /\ last.via # "none"
    /\ ~last.res.raised
    /\ cases[Len(cases)].case = last.case
Latest == cases[Len(cases)]

TimedOut(call) == call.primary.kind = "timeout" \/ call.fallback.kind = "timeout"
NotStartable(call) == call.primary.kind = "oserror" \/ call.fallback.kind = "oserror"
FallbackStarted(call) == Len(call.res.cmds) = 2

\* the chains of run_advanced_workflows: each link's case and the position
\* of campaign at which the link is decided
HpChain ==
    << [case |-> "hp_scf_hubbard", stage |-> "hp_scf"],
       [case |-> "hp_num_pert",    stage |-> "hp_num_pert"] >>
EpwChain ==
    << [case |-> "epw_scf",          stage |-> "epw_scf"],
       [case |-> "epw_nscf",         stage |-> "epw_nscf"],
       [case |-> "epw_wannier90_pp", stage |-> "epw_w90"],
       [case |-> "epw_pw2wannier90", stage |-> "epw_pw2wan"],
       [case |-> "epw_interp",       stage |-> "epw_interp"] >>

AdvancedCases ==
    <<"hp_scf_hubbard", "hp_num_pert", "neb_path_mini", "epw_scf", "epw_nscf",
      "epw_wannier90_pp", "epw_pw2wannier90", "epw_interp">>

\* every case the campaign declares for its options, in order of attempt
DeclaredCases ==
    <<"linkage_qe_bins">>
        \o [i \in 1..Len(pipeline_steps) |-> pipeline_steps[i].case]
        \o [i \in 1..Len(serial_steps) |-> serial_steps[i].case]
        \o <<"wrapper_pw", "wrapper_ph">>
        \o [i \in 1..Len(rank_sweep) |-> "scf_rank_" \o ToString(rank_sweep[i])]
        \o [i \in 1..repeat_count |-> "scf_repeat_" \o ToString(i)]
        \o [i \in 1..Len(MODULE_EXECUTABLES) |->
               "module_" \o ModuleStem(MODULE_EXECUTABLES[i]) \o "_launch"]
        \o AdvancedCases
        \o [i \in 1..Len(plot_steps) |-> plot_steps[i].case]

----------------------------------------------------------------------------
(* C1: in the HP chain and in the EPW chain, once a link is recorded FAIL, *)
(* no downstream link's program is ever started, every record of a         *)
(* downstream link is FAIL with duration 0 and a note starting with        *)
(* "skipped", and the downstream link has its record as soon as campaign   *)
(* has passed the link's position.                                         *)
C1_CascadingSkip ==
    \A ch \in {HpChain, EpwChain} :
      \A i \in DOMAIN ch : \A j \in DOMAIN ch :
        (i < j /\ RecordedFail(ch[i].case)) =>
          /\ ~WasLaunched(ch[j].case)
          /\ \A r \in RecordsOf(ch[j].case) :
                /\ cases[r].status = "FAIL"
                /\ cases[r].duration_s = 0
                /\ StartsWith(cases[r].note, "skipped")
          /\ (pc \notin {ch[k].stage : k \in (i + 1)..j}
                => Cardinality(RecordsOf(ch[j].case)) = 1)

\* epw_nscf was run and failed, and the last link of the chain has its record
C1_Witness ==
    /\ WasLaunched("epw_nscf")
    /\ RecordedFail("epw_nscf")
    /\ Recorded("epw_interp")

(* C2: in the main pipeline, once pw_scf is recorded FAIL the steps that   *)
(* reuse its state are recorded FAIL with note "skipped (dependency        *)
(* failed)" and never started; likewise the phonon steps after pw_scf_ph.  *)
PipelineDependents ==
    [pw_scf |-> {"pw_bands", "bands_post", "pw_nscf", "dos", "projwfc", "pp_charge"},
     pw_scf_ph |-> {"ph_gamma", "ph_grid", "q2r_ifc", "matdyn_gamma"}]

C2_PipelineGated ==
    \A pre \in DOMAIN PipelineDependents :
      RecordedFail(pre) =>
        \A d \in PipelineDependents[pre] :
          /\ ~WasLaunched(d)
          /\ \A r \in RecordsOf(d) :
                /\ cases[r].status = "FAIL"
                /\ cases[r].note = "skipped (dependency failed)"

(* C3: whatever the exit statuses and log texts of the steps and whichever *)
(* optional executable of the QE bin directory is missing, a campaign that *)
(* started ends with exactly the declared cases in its outcome sequence,   *)
(* each once.                                                              *)
C3_OneRecordPerCase ==
    (/\ pc = "returned"
     /\ Len(cases) > 0
     /\ missing \cap {"mpirun", "run_qe.sh", "otool"} = {}
     /\ ~TimedOut(last))
      => CaseNames(cases) = DeclaredCases

(* C4, as claimed: the serial fallback is started if and only if the log   *)
(* of the primary attempt holds a socket marker.                           *)
C4_FallbackIffMarker ==
    last.via \in {"run_mpi_qe", "run_wrapper"} =>
      (FallbackStarted(last) <=> \E m \in SocketMarkers : m \in last.primary.out)

(* C4, amended: the serial fallback is started if and only if the primary  *)
(* attempt ended with a nonzero exit status and its log holds a socket     *)
(* marker.                                                                 *)
C4_FallbackIffFailedWithMarker ==
    last.via \in {"run_mpi_qe", "run_wrapper"} =>
      (FallbackStarted(last) <=>
          /\ last.primary.kind = "exit"
          /\ last.primary.rc # 0
          /\ \E m \in SocketMarkers : m \in last.primary.out)

\* a failed parallel attempt with a bind() marker was followed by the fallback
C4_Witness ==
    /\ last.via = "run_mpi_qe"
    /\ last.primary.rc = 1
    /\ "bind() failed for port" \in last.primary.out
    /\ FallbackStarted(last)
    /\ last.fallback.kind = "exit"

(* C5: a step whose execution exceeded the timeout is recorded FAIL, and   *)
(* main does not return the could-not-start status because of it.          *)
C5_TimeoutIsRecorded ==
    (last.via # "none" /\ TimedOut(last)) =>
      /\ exit_status # 2
      /\ Len(cases) > 0
      /\ Latest.case = last.case
      /\ Latest.status = "FAIL"

(* C6: a step whose program or launcher cannot be started is recorded      *)
(* FAIL, and main does not return 2 because of it.                         *)
C6_NotStartableIsRecorded ==
    (last.via # "none" /\ NotStartable(last)) =>
      /\ exit_status # 2
      /\ Len(cases) > 0
      /\ Latest.case = last.case
      /\ Latest.status = "FAIL"

(* C7: main returns 0 only if every record is PASS, 1 only if some record  *)
(* is FAIL, and 2 only if the campaign could not start (nothing was        *)
(* executed or recorded).                                                  *)
C7_ExitStatus ==
    /\ exit_status = 0 => \A i \in DOMAIN cases : cases[i].status = "PASS"
    /\ exit_status = 1 => \E i \in DOMAIN cases : cases[i].status = "FAIL"
    /\ exit_status \in {0, 1} => pass_count(cases) + fail_count(cases) = Len(cases)
    /\ exit_status = 2 => cases = <<>> /\ launches = <<>>

\* the exit status the verdict of a case accepts
AcceptedExit(call) ==
    IF call.case = "neb_path_mini" THEN call.res.rc \in {0, 1} ELSE call.res.rc = 0
\* the marker a case's program writes on successful termination
CompletionMarker(case) == IF case = "epw_interp" THEN EPW_MARKER ELSE JOB_DONE

(* C8, as claimed: every case recorded PASS after its program was executed *)
(* had an accepted exit status and its completion marker in its log,       *)
(* module launch checks, epw_wannier90_pp and plot scripts included.       *)
C8_PassNeedsExitAndMarker ==
    (LatestIsLastCall /\ Latest.status = "PASS") =>
      /\ AcceptedExit(last)
      /\ CompletionMarker(last.case) \in last.res.log

(* C8, amended: a case recorded PASS after its program was executed had:   *)
(* for a module launch check, the launch banner in its log (whatever the   *)
(* exit status); for a plot or analysis script, exit status 0; for         *)
(* epw_wannier90_pp, exit status 0 and the siepw.nnkp file; for every      *)
(* other case, an accepted exit status (0; for neb_path_mini 0 or 1) and   *)
(* its completion marker in its log.                                       *)
C8_PassEvidence ==
    (LatestIsLastCall /\ Latest.status = "PASS") =>
      IF StartsWith(last.case, "module_")
      THEN BANNER_PROGRAM \in last.res.log /\ BANNER_STARTS \in last.res.log
      ELSE IF last.via = "run_plot_script"
      THEN last.res.rc = 0
      ELSE IF last.case = "epw_wannier90_pp"
      THEN last.res.rc = 0 /\ NNKP_FILE \in last.res.files
      ELSE AcceptedExit(last) /\ CompletionMarker(last.case) \in last.res.log

\* a module launch check passed although the program exited with status 1
C8_Witness ==
    /\ LatestIsLastCall
    /\ StartsWith(last.case, "module_")
    /\ Latest.status = "PASS"
    /\ last.res.rc = 1

(* C9: when the serial fallback ran, the executor returns the fallback's   *)
(* exit status and the sum of both durations; when it did not, the primary *)
(* attempt's exit status and duration.                                     *)
C9_ExecutorResult ==
    (last.via \in {"run_mpi_qe", "run_wrapper"} /\ ~last.res.raised) =>
      IF FallbackStarted(last)
      THEN /\ last.res.rc = last.fallback.rc
           /\ last.res.dur = last.primary.dur + last.fallback.dur
      ELSE /\ last.res.rc = last.primary.rc
           /\ last.res.dur = last.primary.dur

\* the fallback ran, with another exit status and another duration than the
\* primary attempt
C9_Witness ==
    /\ last.via = "run_mpi_qe"
    /\ ~last.res.raised
    /\ FallbackStarted(last)
    /\ last.primary.rc = 2 /\ last.fallback.rc = 0
    /\ last.primary.dur = 1 /\ last.fallback.dur = 2

(* C10: once a sweep has begun, whatever its iterations' outcomes, the     *)
(* campaign ends with every iteration executed and recorded: one           *)
(* scf_rank_<r> record per entry of the rank list in list order, and       *)
(* scf_repeat_1 .. scf_repeat_N in increasing order.                       *)
IsRankCase(name) == StartsWith(name, "scf_rank_")
IsRepeatCase(name) == StartsWith(name, "scf_repeat_")
RankCases == [i \in 1..Len(rank_sweep) |-> "scf_rank_" \o ToString(rank_sweep[i])]
RepeatCases == [i \in 1..repeat_count |-> "scf_repeat_" \o ToString(i)]

C10_SweepsComplete ==
    /\ (pc = "returned" /\ Len(rank_sweep) > 0 /\ WasLaunched(RankCases[1])) =>
          /\ SelectSeq(CaseNames(cases), IsRankCase) = RankCases
          /\ \A i \in DOMAIN RankCases : WasLaunched(RankCases[i])
    /\ (pc = "returned" /\ repeat_count > 0 /\ WasLaunched(RepeatCases[1])) =>
          /\ SelectSeq(CaseNames(cases), IsRepeatCase) = RepeatCases
          /\ \A i \in DOMAIN RepeatCases : WasLaunched(RepeatCases[i])

\* the iterations of a sweep that are recorded PASS
PassedIterations(cs, IsSweepCase(_)) ==
    Cardinality({i \in DOMAIN cs : IsSweepCase(cs[i].case) /\ cs[i].status = "PASS"})

(* C11: each headline dispersion statistic of the report (rank-sweep       *)
(* energy span and Fermi span, repeatability energy sigma and Fermi sigma) *)
(* is NaN exactly when fewer than 2 iterations of its sweep passed.        *)
C11_StatisticsNeedTwo ==
    report.written =>
      /\ report.rank_energy_span.nan <=> PassedIterations(cases, IsRankCase) < 2
      /\ report.rank_fermi_span.nan <=> PassedIterations(cases, IsRankCase) < 2
      /\ report.rep_energy_std.nan <=> PassedIterations(cases, IsRepeatCase) < 2
      /\ report.rep_fermi_std.nan <=> PassedIterations(cases, IsRepeatCase) < 2

IsPassedRank(c) == IsRankCase(c.case) /\ c.status = "PASS"
IsPassedRepeat(c) == IsRepeatCase(c.case) /\ c.status = "PASS"
\* the case an ScfRun was made for: label rank_<r> is case scf_rank_<r>
RunCases(runs) == [i \in DOMAIN runs |-> "scf_" \o runs[i].label]

(* C12: the run lists hold exactly the PASS iterations of their sweep, in  *)
(* iteration order, each with a parsed (non-NaN) total energy and Fermi    *)
(* level; the reported spans are max - min and the reported sigmas the     *)
(* population standard deviation over these runs.                          *)
C12_RunsArePassIterations ==
    /\ RunCases(rank_runs) = CaseNames(SelectSeq(cases, IsPassedRank))
    /\ RunCases(repeat_runs) = CaseNames(SelectSeq(cases, IsPassedRepeat))
    /\ \A i \in DOMAIN rank_runs :
          ~rank_runs[i].total_energy_ry.nan /\ ~rank_runs[i].fermi_ev.nan
    /\ \A i \in DOMAIN repeat_runs :
          ~repeat_runs[i].total_energy_ry.nan /\ ~repeat_runs[i].fermi_ev.nan
    /\ report.written =>
          /\ rank_runs # <<>> =>
                report.rank_energy_span =
                    FloatSub(max(total_energies(rank_runs)), min(total_energies(rank_runs)))
          /\ Len(repeat_runs) > 1 =>
                /\ ~report.rep_energy_std.nan
                /\ report.rep_energy_std.den = Len(repeat_runs) * Len(repeat_runs)
                /\ report.rep_fermi_std.den = Len(repeat_runs) * Len(repeat_runs)

\* a sweep with a failed iteration and passed ones, reported
C12_Witness ==
    /\ report.written
    /\ \E i \in DOMAIN cases : IsRankCase(cases[i].case) /\ cases[i].status = "FAIL"
    /\ Len(rank_runs) >= 2
    /\ Len(repeat_runs) >= 2

\* text ends with suffix
EndsWith(text, suffix) ==
    /\ Len(text) >= Len(suffix)
    /\ SubSeq(text, Len(text) - Len(suffix) + 1, Len(text)) = suffix

(* C13: a parse failure after a successful execution always becomes a FAIL *)
(* record whose note carries the exception text, for a sweep iteration     *)
(* (total energy or Fermi level absent from a log with exit 0 and the      *)
(* completion marker) and for the reference-metrics stage alike, and the   *)
(* campaign goes on.                                                       *)
C13_ParseFailureIsFailRecord ==
    /\ (/\ LatestIsLastCall
        /\ IsRankCase(last.case) \/ IsRepeatCase(last.case)
        /\ last.res.rc = 0
        /\ has_job_done(last.res.log)
        /\ ENERGY_LINE \notin last.res.log \/ FERMI_LINE \notin last.res.log)
          => /\ Latest.status = "FAIL"
             /\ StartsWith(Latest.note, "parse failed: ")
             /\ pc # "returned"
    /\ (report.written /\ report.metrics_error # "")
          => \E i \in DOMAIN cases :
                /\ cases[i].status = "FAIL"
                /\ EndsWith(cases[i].note, report.metrics_error)

\* the status the latest record of a name carries is PASS
LatestPass(cs, name) ==
    \E i \in DOMAIN cs :
        /\ cs[i].case = name
        /\ cs[i].status = "PASS"
        /\ \A j \in DOMAIN cs : j > i => cs[j].case # name

(* C14: in every roll-up built, a category's total counts the declared     *)
(* names of the category that occur in the outcome sequence, its passed    *)
(* counts those among them recorded PASS, a declared name never recorded   *)
(* counts in neither, and 0 <= passed <= total <= number of declared names.*)
C14_RollUpCountsRecordedNames ==
    result.kind = "tables" =>
      \A b \in DOMAIN result.builds :
        \A k \in DOMAIN categories(cases) :
          LET names == categories(cases)[k].names
              entry == result.builds[b].category_summary[k]
              seen  == {n \in DOMAIN names : names[n] \in {cases[i].case : i \in DOMAIN cases}}
          IN  /\ entry.category = categories(cases)[k].category
              /\ entry.total = Cardinality(seen)
              /\ entry.passed = Cardinality({n \in seen : LatestPass(cases, names[n])})
              /\ 0 <= entry.passed
              /\ entry.passed <= entry.total
              /\ entry.total <= Len(names)

\* of the 11 declared Core Workflow names only pw_scf was recorded, as FAIL,
\* next to a case of another category
C14_Witness ==
    /\ result.kind = "tables"
    /\ Len(result.builds) >= 1
    /\ Len(cases) = 2
    /\ cases[1].case = "pw_scf" /\ cases[1].status = "FAIL"
    /\ cases[2].case = "wrapper_ph" /\ cases[2].status = "PASS"
    /\ result.builds[1].category_summary[1].total = 1
    /\ result.builds[1].category_summary[1].passed = 0

ValenceAt(k) ==
    {fixture.energies[b][k].v : b \in {b \in DOMAIN fixture.energies :
        fixture.energies[b][k].v <= fixture.fermi.v}}
ConductionAt(k) ==
    {fixture.energies[b][k].v : b \in {b \in DOMAIN fixture.energies :
        fixture.energies[b][k].v >= fixture.fermi.v}}
KPoints == DOMAIN fixture.energies[1]
Highest(S) == CHOOSE m \in S : \A x \in S : x <= m
Lowest(S) == CHOOSE m \in S : \A x \in S : m <= x

\* a table of finite energies with a valence and a conduction energy at
\* every k-point, and a finite Fermi level
OrdinaryTable ==
    /\ fixture.kind = "gaps"
    /\ fixture.fermi.k = "fin"
    /\ \A b \in DOMAIN fixture.energies : \A k \in KPoints :
          fixture.energies[b][k].k = "fin"
    /\ \A k \in KPoints : ValenceAt(k) # {} /\ ConductionAt(k) # {}

\* valence [-1.0, -0.5], conduction [1.0, 1.5], Fermi level 0.0
GapsFixture ==
    /\ fixture.kind = "gaps"
    /\ fixture.energies = <<<<Fin(-2), Fin(-1)>>, <<Fin(2), Fin(3)>>>>
    /\ fixture.fermi = Fin(0)

(* C15: for a table of finite energies with valence (<= Fermi) and         *)
(* conduction (>= Fermi) energies at every k-point, compute_gaps returns   *)
(* indirect = min over k of the conduction minimum - max over k of the     *)
(* valence maximum and direct = min over k of (conduction minimum at k -   *)
(* valence maximum at k); for valence [-1.0, -0.5], conduction [1.0, 1.5]  *)
(* and Fermi 0.0 it returns indirect 1.5 and direct 2.0.                   *)
C15_GapsFormula ==
    result.kind = "gaps" =>
      /\ OrdinaryTable =>
           /\ result.indirect =
                 Fin(Lowest({Lowest(ConductionAt(k)) : k \in KPoints})
                     - Highest({Highest(ValenceAt(k)) : k \in KPoints}))
           /\ result.direct =
                 Fin(Lowest({Lowest(ConductionAt(k)) - Highest(ValenceAt(k)) :
                                k \in KPoints}))
      /\ GapsFixture => result.indirect = Fin(3) /\ result.direct = Fin(4)

\* the gaps of the two-band, two-k-point fixture were computed
C15_Witness ==
    /\ result.kind = "gaps"
    /\ GapsFixture
    /\ OrdinaryTable
    /\ result.direct # result.indirect

\* cs is what ds began with
IsPrefix(cs, ds) ==
    /\ Len(cs) <= Len(ds)
    /\ \A i \in DOMAIN cs : ds[i] = cs[i]

(* C17: every step of the campaign leaves the records already in the       *)
(* outcome sequence where they were, with their case, status, duration and *)
(* note, and only adds records at the end: nothing is removed, reordered   *)
(* or overwritten.                                                         *)
C17_AppendOnly == [][IsPrefix(cases, cases')]_vars

\* a finished campaign that recorded the same case name twice
C17_Witness ==
    /\ pc = "returned"
    /\ exit_status \in {0, 1}
    /\ \E i \in DOMAIN cases : \E j \in DOMAIN cases :
          i < j /\ cases[i].case = cases[j].case

\* pw.x and ph.x were not found where detect_qe_bin looks for them: in the
\* --qe-bin directory when one is given, else in every candidate directory
NotLocated ==
    /\ setup.done
    /\ IF setup.explicit # None
       THEN setup.explicit \notin setup.usable
       ELSE \A i \in DOMAIN candidates : candidates[i] \notin setup.usable

(* C18: when pw.x and ph.x cannot be located, no output directory was      *)
(* prepared, no program was launched, no case was recorded and main has    *)
(* returned 2; a --qe-bin directory that lacks them is not replaced by a   *)
(* candidate directory that has them.                                      *)
C18_AbortsBeforeAnyOutput ==
    NotLocated =>
      /\ setup.qe_bin = None
      /\ ~setup.prepared
      /\ launches = <<>>
      /\ cases = <<>>
      /\ pc = "returned"
      /\ exit_status = 2

\* --qe-bin names a directory without the executables while a candidate
\* directory holds them
C18_Witness ==
    /\ NotLocated
    /\ setup.explicit = ExplicitDir
    /\ \E i \in DOMAIN candidates : candidates[i] \in setup.usable
    /\ exit_status = 2

\* two runs share none of prefix, scratch directory, input file and log file
DistinctArtifacts(a, b) ==
    /\ a.prefix # b.prefix
    /\ a.outdir # b.outdir
    /\ a.dst # b.dst
    /\ a.log # b.log

(* C19: the sweep iterations that have run each used a prefix, a scratch   *)
(* directory, an input file and a log file that no other sweep iteration   *)
(* and no SCF run of the main pipeline used.                               *)
C19_IterationsUseDistinctArtifacts ==
    /\ \A i \in DOMAIN IterationsRun : \A j \in DOMAIN IterationsRun :
          i # j => DistinctArtifacts(IterationsRun[i], IterationsRun[j])
    /\ \A i \in DOMAIN IterationsRun : \A j \in DOMAIN pipeline_variants :
          DistinctArtifacts(IterationsRun[i], pipeline_variants[j])

\* a value that was parsed and lies within tolerance of its reference
WithinTolerance(parsed, ref, tolerance) ==
    /\ parsed # <<>>
    /\ ~parsed[1].nan
    /\ parsed[1].v - ref <= tolerance
    /\ ref - parsed[1].v <= tolerance
SmokeValuesGood ==
    /\ WithinTolerance(result.total_energy, REFERENCE_total_energy,
                       REFERENCE_tolerance_energy)
    /\ WithinTolerance(result.fermi, REFERENCE_fermi, REFERENCE_tolerance_fermi)
SmokeInputsMissing ==
    \/ \A i \in DOMAIN pw_candidates : pw_candidates[i] \notin fixture.present
    \/ ~fixture.input_exists
    \/ ~fixture.run_qe_exists
\* main has returned
SmokeEnded == pc = "returned"

(* C20: the smoke test returns 2 with nothing launched when pw.x, the      *)
(* input or the wrapper is missing; after a launch it returns 0 only if    *)
(* the total energy and the Fermi level were both parsed and lie within    *)
(* their tolerances, and it returns 1 otherwise.                           *)
C20_SmokeExitStatus ==
    (fixture.kind = "smoke" /\ SmokeEnded) =>
      /\ SmokeInputsMissing => exit_status = 2 /\ launches = <<>>
      /\ exit_status = 2 => SmokeInputsMissing
      /\ exit_status = 0 => launches # <<>> /\ SmokeValuesGood
      /\ (launches # <<>> /\ ~SmokeValuesGood) => exit_status = 1

(* C21: a call of run_mpi_qe or run_wrapper starts at most two executions, *)
(* the parallel attempt and then at most one serial fallback; after a      *)
(* primary attempt that exited 0 there is one execution only, and a        *)
(* primary attempt that failed without a socket marker in its log is the   *)
(* only execution and is returned with its nonzero exit status.            *)
C21_AtMostTwoExecutions ==
    last.via \in {"run_mpi_qe", "run_wrapper"} =>
      /\ Len(last.res.cmds) \in {1, 2}
      /\ Len(launches) <= Len(last.res.cmds)
      /\ last.res.cmds[1] \in {"mpirun", "run_qe.sh"}
      /\ Len(last.res.cmds) = 2 => last.res.cmds[2] = "serial"
      /\ (last.primary.kind = "exit" /\ last.primary.rc = 0) => Len(last.res.cmds) = 1
      /\ (/\ last.primary.kind = "exit"
          /\ last.primary.rc # 0
          /\ \A m \in SocketMarkers : m \notin last.primary.out) =>
            /\ Len(last.res.cmds) = 1
            /\ ~last.res.raised
            /\ last.res.rc = last.primary.rc

\* the fallback ran after a transport failure and failed as well
C21_Witness ==
    /\ last.via = "run_mpi_qe"
    /\ last.primary.kind = "exit" /\ last.primary.rc = 1
    /\ has_mpi_socket_error(last.primary.out)
    /\ last.fallback.kind = "exit" /\ last.fallback.rc = 2
    /\ last.res.cmds = <<"mpirun", "serial">>
    /\ last.res.rc = 2

\* a PASS record of case c stands before position r of the outcome sequence
PassedBefore(c, r) == \E q \in RecordsOf(c) : q < r /\ cases[q].status = "PASS"

(* C22: in the HP and EPW chains a link whose program was started has a    *)
(* PASS record of every upstream link in the outcome sequence; a link is   *)
(* recorded PASS only after PASS records of all its upstream links; and    *)
(* the records of a chain stand in chain order.                            *)
C22_LinksRunAfterUpstreamPass ==
    \A ch \in {HpChain, EpwChain} :
      \A i \in DOMAIN ch : \A j \in DOMAIN ch :
        i < j =>
          /\ WasLaunched(ch[j].case) => PassedBefore(ch[i].case, Len(cases) + 1)
          /\ \A r \in RecordsOf(ch[j].case) :
                /\ cases[r].status = "PASS" => PassedBefore(ch[i].case, r)
                /\ \A q \in RecordsOf(ch[i].case) : q < r

\* the last link of the EPW chain was started and recorded, PASS or FAIL,
\* and so was the second link of the HP chain
C22_Witness ==
    /\ WasLaunched("epw_interp")
    /\ Recorded("epw_interp")
    /\ WasLaunched("hp_num_pert")
    /\ RecordedFail("hp_num_pert")

(* C23: neb_path_mini, once neb.x has run, is recorded PASS exactly when   *)
(* its log holds 'JOB DONE.' and neb.x exited 0 or 1: another exit status  *)
(* is FAIL even with the marker, and 0 or 1 without the marker is FAIL.    *)
C23_NebVerdict ==
    (LatestIsLastCall /\ last.case = "neb_path_mini") =>
      /\ Latest.status \in {"PASS", "FAIL"}
      /\ Latest.status = "PASS" <=>
            (JOB_DONE \in last.primary.out /\ last.primary.rc \in {0, 1})

\* neb.x exited 1 with the marker in its log and the case is PASS
C23_Witness ==
    /\ LatestIsLastCall
    /\ last.case = "neb_path_mini"
    /\ last.primary.rc = 1
    /\ JOB_DONE \in last.primary.out
    /\ Latest.status = "PASS"

\* the advanced workflows: their cases and the executables each requires
AdvancedWorkflows ==
    { [cases |-> {"hp_scf_hubbard", "hp_num_pert"}, requires |-> {"pw.x", "hp.x"}],
      [cases |-> {"neb_path_mini"}, requires |-> {"neb.x"}],
      [cases |-> {"epw_scf", "epw_nscf", "epw_wannier90_pp", "epw_pw2wannier90",
                  "epw_interp"},
       requires |-> {"pw.x", "wannier90.x", "pw2wannier90.x", "epw.x"}] }
Attempted(c) == Recorded(c) \/ WasLaunched(c)

(* C24: a workflow with a required executable missing has, once decided,   *)
(* all its cases recorded FAIL with duration 0 and none of its programs    *)
(* started; and a campaign that began the HP workflow ends with NEB and    *)
(* EPW attempted, one that began NEB ends with EPW attempted, whatever     *)
(* failed before.                                                          *)
C24_MissingExecutablesFailWorkflowOnly ==
    /\ \A w \in AdvancedWorkflows :
          ((\E exe \in w.requires : ~exists(exe)) /\ (\E c \in w.cases : Recorded(c))) =>
             \A c \in w.cases :
                /\ ~WasLaunched(c)
                /\ Cardinality(RecordsOf(c)) = 1
                /\ \A r \in RecordsOf(c) :
                      cases[r].status = "FAIL" /\ cases[r].duration_s = 0
    /\ (pc = "returned" /\ Attempted("hp_scf_hubbard")) =>
          Attempted("neb_path_mini") /\ Attempted("epw_scf")
    /\ (pc = "returned" /\ Attempted("neb_path_mini")) => Attempted("epw_scf")

\* the plotting and band-summary cases, and the core steps they follow
PlotCases == {plot_steps[i].case : i \in DOMAIN plot_steps}
CoreCases ==
    {pipeline_steps[i].case : i \in DOMAIN pipeline_steps}
        \cup {serial_steps[i].case : i \in DOMAIN serial_steps}

(* C25: a plotting or band-summary script is started only when the core    *)
(* workflow finished: pipeline_ok is true, every pipeline step and the     *)
(* q2r/matdyn steps being recorded PASS.                                   *)
C25_PlotsNeedCoreWorkflow ==
    \A c \in PlotCases :
      WasLaunched(c) =>
        /\ pipeline_ok
        /\ \A core \in CoreCases : Recorded(core) /\ ~RecordedFail(core)

(* C26: for the same band table and Fermi level, run_single_case stores    *)
(* the indirect and direct gaps that compute_gaps returns.                 *)
C26_ConvergenceGapsAgree ==
    result.kind = "convergence" =>
      /\ result.indirect = compute_gaps(fixture.energies, fixture.fermi).indirect
      /\ result.direct = compute_gaps(fixture.energies, fixture.fermi).direct

\* an outcome sequence as a campaign leaves it: every case belongs to the
\* campaign, and only a rank-sweep case can be recorded more than once
CampaignRecords(cs) ==
    /\ \A i \in DOMAIN cs :
          \E k \in DOMAIN categories(cs) :
             \E n \in DOMAIN categories(cs)[k].names :
                categories(cs)[k].names[n] = cs[i].case
    /\ \A i \in DOMAIN cs : \A j \in DOMAIN cs :
          (i # j /\ cs[i].case = cs[j].case) => StartsWith(cs[i].case, "scf_rank_")
SumOf(summary, field) ==
    SeqSum([k \in DOMAIN summary |->
               IF field = "total" THEN summary[k].total ELSE summary[k].passed])

(* C27: for the outcome sequence of a campaign, a repeated rank value      *)
(* included, the categories' totals add up to the number of records and    *)
(* their passed counts add up to the overall PASS count.                   *)
C27_RollUpPartitionsRecords ==
    (result.kind = "tables" /\ CampaignRecords(cases)) =>
      \A b \in DOMAIN result.builds :
        /\ SumOf(result.builds[b].category_summary, "total") = Len(cases)
        /\ SumOf(result.builds[b].category_summary, "passed") = pass_count(cases)

(* C28: a step recorded PASS after a serial fallback had its completion    *)
(* marker written by the fallback execution itself, not left in the log by *)
(* the failed parallel attempt.                                            *)
C28_FallbackWroteMarker ==
    (LatestIsLastCall /\ FallbackStarted(last) /\ Latest.status = "PASS") =>
      CompletionMarker(last.case) \in last.fallback.out

BothGapsFinite == result.indirect.k = "fin" /\ result.direct.k = "fin"
NeitherNegativeNorNaN(gap) == Le(Fin(0), gap)
EnergyAtFermi ==
    \E b \in DOMAIN fixture.energies : \E k \in DOMAIN fixture.energies[b] :
        fixture.energies[b][k] = fixture.fermi

(* C29, as claimed: whenever both gaps are finite, direct >= indirect >= 0;*)
(* an energy equal to the Fermi level yields gaps of 0; and for no band    *)
(* table and Fermi level is a gap negative or NaN.                         *)
C29_GapsOrderedForEveryInput ==
    result.kind = "gaps" =>
      /\ BothGapsFinite =>
            result.direct.v >= result.indirect.v /\ result.indirect.v >= 0
      /\ EnergyAtFermi => result.indirect = Fin(0) /\ result.direct = Fin(0)
      /\ NeitherNegativeNorNaN(result.indirect)
      /\ NeitherNegativeNorNaN(result.direct)

(* C29, amended: whenever both gaps are finite, direct >= indirect >= 0;   *)
(* for a finite Fermi level, an energy equal to it yields gaps of 0 and no *)
(* band table (infinite or NaN energies included) makes a gap negative or  *)
(* NaN.                                                                    *)
C29_GapsOrderedForFiniteFermi ==
    result.kind = "gaps" =>
      /\ BothGapsFinite =>
            result.direct.v >= result.indirect.v /\ result.indirect.v >= 0
      /\ fixture.fermi.k = "fin" =>
            /\ EnergyAtFermi => result.indirect = Fin(0) /\ result.direct = Fin(0)
            /\ NeitherNegativeNorNaN(result.indirect)
            /\ NeitherNegativeNorNaN(result.direct)

\* a table with an energy at the Fermi level next to energies on both sides
C29_Witness ==
    /\ result.kind = "gaps"
    /\ fixture.fermi = Fin(0)
    /\ fixture.energies = <<<<Fin(-2), Fin(0)>>, <<Fin(2), Fin(3)>>>>
    /\ result.direct = Fin(0)
    /\ result.indirect = Fin(0)

RecordedPass(c) == \E i \in RecordsOf(c) : cases[i].status = "PASS"

(* C30: the advanced-workflow metrics report a result only for a case that *)
(* passed: hp_determine_num_pert_only is "PASS" only if hp_num_pert is     *)
(* recorded PASS, epw_interpolation_marker is "YES" only if epw_interp is  *)
(* recorded PASS, and neb_activation_energy_eV differs from "NA" only if   *)
(* neb_path_mini is recorded PASS.                                         *)
C30_MetricsOnlyForPassedCases ==
    /\ metrics.hp_determine_num_pert_only = "PASS" => RecordedPass("hp_num_pert")
    /\ metrics.epw_interpolation_marker = "YES" => RecordedPass("epw_interp")
    /\ metrics.neb_activation_energy_eV # "NA" => RecordedPass("neb_path_mini")

====
